---- MODULE Spec2Model ----
(***************************************************************************)
(* Model of the rook device-discovery code:                                *)
(*   - pkg/operator/discover: the operator-side bookkeeping of claimed     *)
(*     devices (ListDevices, ListDevicesInUse, FreeDevices,                *)
(*     GetAvailableDevices) over the ConfigMap store;                      *)
(*   - pkg/daemon/discover: the node-local discovery daemon (Run,          *)
(*     probeDevices).                                                      *)
(* Each subsystem has its own variables, initial predicate, next-state     *)
(* relation and specification; the variables of the other subsystems are   *)
(* left unchanged by its actions.                                          *)
(***************************************************************************)
EXTENDS Integers, Sequences, FiniteSets, TLC

VARIABLES
    configMaps,   \* operator side: the ConfigMaps of the namespace, by name
    apiFault,     \* operator side: the verb the API server rejects in this run
    last          \* operator side: the latest call, its arguments, the store
                  \* before it and what it returned

VARIABLES
    probeIn,      \* probeDevices: what the executor reports, [err, devices]
    probeOut      \* probeDevices: what it returned, [devices, err], once it ran

VARIABLES
    dpc,          \* daemon: where Run is
    dret,         \* daemon: what Run returned
    contextNil,   \* daemon: whether this Run was given a nil context
    nodeStore,    \* daemon: the ConfigMaps of the namespace, by name
    storeBefore,  \* daemon: the ConfigMaps when this Run started
    dscan,        \* daemon: devices, the result of probeDevices in this Run
    deviceStr,    \* daemon: the serialization of devices
    lastDevice,   \* daemon: the devices text read from the record
    getErr,       \* daemon: the error the read of the record returned
    dlog,         \* daemon: what this Run did so far, in order
    sigc          \* daemon: whether a SIGTERM is in the signal channel

VARIABLES
    opc,          \* operator: where Operator.Run is
    oret,         \* operator: what Run returned
    namespace,    \* operator: the value of POD_NAMESPACE
    initAttempts, \* operator: calls of initResources in this Run
    initErr,      \* operator: what the latest initResources returned
    oclock,       \* operator: seconds this Run spent in <-time.After
    olog,         \* operator: what this Run attempted or started, in order
    signalChan,   \* operator: the signals in signalChan (capacity 1)
    received,     \* operator: the signal the main wait received
    stopChan      \* operator: how many times stopChan was closed

VARIABLES
    wpc,          \* waitForRebalance: "idle", "phase1", "phase2" or "returned"
    wret,         \* waitForRebalance: what it returned
    initialUsage, \* waitForRebalance: the usage baseline it was given
    tries1,       \* waitForRebalance: polls of the cluster usage so far
    tries2,       \* waitForRebalance: polls of the placement groups so far
    wpoll         \* waitForRebalance: what the latest poll saw

VARIABLES
    osdProc,      \* OSD agent: the IDs of the OSDs with a tracked child process
    agentLast     \* OSD agent: the latest call, its arguments and what it did

VARIABLES
    daemonSets,   \* Discover.Start: the DaemonSets of the cluster
    roles,        \* Discover.Start: the namespaces with the rook-discover role
    startLast     \* Discover.Start: the latest call and what it returned

VARIABLES
    raceStore,    \* concurrent claims: the ConfigMaps of the namespace, by name
    callers,      \* concurrent claims: where each caller is and what it holds
    raceLog       \* concurrent claims: the API calls so far, in order

VARIABLES
    tripStore,    \* claim, free, claim: the ConfigMaps of the namespace, by name
    trip          \* claim, free, claim: the calls made and what each returned

VARIABLES
    children,     \* runOSD: the ceph-osd processes that run, [pid, id, uuid]
    procMap,      \* runOSD: a.osdProc as a map from the OSD ID to the handle
    started,      \* runOSD: the number of processes started so far
    runLast       \* runOSD: the latest call and what it did

VARIABLES
    partLast      \* GetDevicePartitions: the latest call and what it returned

discoverVars == <<configMaps, apiFault, last>>
probeVars == <<probeIn, probeOut>>
daemonVars == <<dpc, dret, contextNil, nodeStore, storeBefore, dscan, deviceStr,
                lastDevice, getErr, dlog, sigc>>

operatorVars == <<opc, oret, namespace, initAttempts, initErr, oclock, olog, signalChan,
                  received, stopChan>>

rebalanceVars == <<wpc, wret, initialUsage, tries1, tries2, wpoll>>

agentVars == <<osdProc, agentLast>>

deployVars == <<daemonSets, roles, startLast>>

raceVars == <<raceStore, callers, raceLog>>

tripVars == <<tripStore, trip>>

runVars == <<children, procMap, started, runLast>>

partVars == <<partLast>>

vars == <<discoverVars, probeVars, daemonVars, operatorVars, rebalanceVars, agentVars,
          deployVars, raceVars, tripVars, runVars, partVars>>

\* what a step of one part of the program leaves alone
notDiscover == <<probeVars, daemonVars, operatorVars, rebalanceVars, agentVars,
    deployVars, raceVars, tripVars, runVars, partVars>>
notProbe == <<discoverVars, daemonVars, operatorVars, rebalanceVars, agentVars,
    deployVars, raceVars, tripVars, runVars, partVars>>
notDaemon == <<discoverVars, probeVars, operatorVars, rebalanceVars, agentVars,
    deployVars, raceVars, tripVars, runVars, partVars>>
notOperator == <<discoverVars, probeVars, daemonVars, rebalanceVars, agentVars,
    deployVars, raceVars, tripVars, runVars, partVars>>
notRebalance == <<discoverVars, probeVars, daemonVars, operatorVars, agentVars,
    deployVars, raceVars, tripVars, runVars, partVars>>
notAgent == <<discoverVars, probeVars, daemonVars, operatorVars, rebalanceVars,
    deployVars, raceVars, tripVars, runVars, partVars>>
notDeploy == <<discoverVars, probeVars, daemonVars, operatorVars, rebalanceVars, agentVars,
    raceVars, tripVars, runVars, partVars>>
notRace == <<discoverVars, probeVars, daemonVars, operatorVars, rebalanceVars, agentVars,
    deployVars, tripVars, runVars, partVars>>
notTrip == <<discoverVars, probeVars, daemonVars, operatorVars, rebalanceVars, agentVars,
    deployVars, raceVars, runVars, partVars>>
notRun == <<discoverVars, probeVars, daemonVars, operatorVars, rebalanceVars, agentVars,
    deployVars, raceVars, tripVars, partVars>>
notPart == <<discoverVars, probeVars, daemonVars, operatorVars, rebalanceVars, agentVars,
    deployVars, raceVars, tripVars, runVars>>

(***************************************************************************)
(* Bounds of the model.                                                    *)
(***************************************************************************)
\* longest explicit device list handed to a call
MaxList == 2
\* most devices the hardware discovery reports in one scan
MaxRawDevices == 2
MaxInitAttempts == 3
MaxFailures == 2

\* lists of at most n elements of S
SeqsUpTo(S, n) == UNION {[1..k -> S] : k \in 0..n}

NoRepeat(l) == \A i, j \in 1..Len(l) : l[i] = l[j] => i = j

(***************************************************************************)
(* Strings that are inspected character by character (device names and     *)
(* filter patterns) are sequences of one-character strings.                *)
(***************************************************************************)
sda == <<"s", "d", "a">>
sdb == <<"s", "d", "b">>
DevNames == {sda, sdb}

Nodes == {"n1", "n2"}
NodeNames == {""} \cup Nodes

\* sys.LocalDisk and rookalpha.Device: the code reads only the Name field
LocalDisk(name) == [Name |-> name]
Device(name) == [Name |-> name]

(***************************************************************************)
(* encoding/json for a slice of structs.  A text is a sequence of tokens;  *)
(* the empty text is <<>>.                                                 *)
(***************************************************************************)
TokOpen == [tok |-> "["]
TokClose == [tok |-> "]"]
TokComma == [tok |-> ","]
TokNull == [tok |-> "null"]
TokObj(v) == [tok |-> "obj", val |-> v]

RECURSIVE MarshalItems(_)
MarshalItems(s) ==
    IF s = <<>> THEN <<>>
    ELSE IF Len(s) = 1 THEN <<TokObj(s[1])>>
    ELSE <<TokObj(s[1]), TokComma>> \o MarshalItems(Tail(s))

\* json.Marshal of a non-nil slice (every slice the code marshals is non-nil)
Marshal(s) == <<TokOpen>> \o MarshalItems(s) \o <<TokClose>>

RECURSIVE UnmarshalItems(_)
UnmarshalItems(t) ==
    IF t = <<>> \/ t[1].tok # "obj" THEN [err |-> TRUE, val |-> <<>>]
    ELSE IF Len(t) = 1 THEN [err |-> FALSE, val |-> <<t[1].val>>]
    ELSE IF t[2] # TokComma THEN [err |-> TRUE, val |-> <<>>]
    ELSE LET rest == UnmarshalItems(SubSeq(t, 3, Len(t)))
         IN  IF rest.err THEN rest
             ELSE [err |-> FALSE, val |-> <<t[1].val>> \o rest.val]

\* json.Unmarshal into a slice
Unmarshal(t) ==
    IF t = <<TokNull>> \/ t = <<TokOpen, TokClose>> THEN [err |-> FALSE, val |-> <<>>]
    ELSE IF Len(t) < 3 \/ t[1] # TokOpen \/ t[Len(t)] # TokClose
         THEN [err |-> TRUE, val |-> <<>>]
    ELSE UnmarshalItems(SubSeq(t, 2, Len(t) - 1))

(***************************************************************************)
(* regexp.Match, for the patterns of the model: literal characters, "."    *)
(* (any character), a leading "^" and a trailing "$".  A pattern with an   *)
(* unclosed "(" does not compile.                                          *)
(***************************************************************************)
RegexpCompileError(p) ==
    \E i \in 1..Len(p) : p[i] = "(" /\ ~\E j \in (i + 1)..Len(p) : p[j] = ")"

RegexpBody(p) ==
    LET from == IF p # <<>> /\ p[1] = "^" THEN 2 ELSE 1
        to == IF p # <<>> /\ p[Len(p)] = "$" THEN Len(p) - 1 ELSE Len(p)
    IN  SubSeq(p, from, to)

RegexpMatchAt(body, s, pos) ==
    /\ pos + Len(body) - 1 <= Len(s)
    /\ \A k \in 1..Len(body) : body[k] = "." \/ body[k] = s[pos + k - 1]

\* [err, matched] as regexp.Match(pattern, b) returns them
RegexpMatch(p, s) ==
    IF RegexpCompileError(p) THEN [err |-> TRUE, matched |-> FALSE]
    ELSE LET body == RegexpBody(p)
             atStart == p # <<>> /\ p[1] = "^"
             atEnd == p # <<>> /\ p[Len(p)] = "$"
         IN  [err |-> FALSE,
              matched |-> \E pos \in 1..(Len(s) + 1) :
                              /\ atStart => pos = 1
                              /\ RegexpMatchAt(body, s, pos)
                              /\ atEnd => pos + Len(body) - 1 = Len(s)]

(***************************************************************************)
(* The ConfigMap store.  configMaps maps a ConfigMap's name to its labels  *)
(* (app: the k8sutil.AppAttr label, node: the NodeAttr label) and to the   *)
(* text under its one data key ("devices"); a ConfigMap without that key   *)
(* reads as the empty text, as a missing key of a Go map does.             *)
(***************************************************************************)
AppName == "rook-discover"
RawDeviceCMName == "raw-device-"
deviceInUseCMName == "local-device-in-use-"
deviceInUseAppName == "rook-claimed-devices"

NoCM == "<nil>"
nil == "<nil>"

ConfigMap(app, node, data) == [labels |-> [app |-> app, node |-> node], data |-> data]

\* ConfigMaps(namespace).List with the label selector app=<app>
ListConfigMaps(store, app) == {c \in DOMAIN store : store[c].labels.app = app}

\* the verb the API server rejects ("none": it serves every call)
Faults == {"none", "list", "create", "update"}

\* ConfigMaps(namespace).Create: [err, store]
CreateConfigMap(store, name, cm, fault) ==
    IF fault = "create" THEN [err |-> "create failed", store |-> store]
    ELSE IF name \in DOMAIN store THEN [err |-> "already exists", store |-> store]
    ELSE [err |-> nil, store |-> [c \in DOMAIN store \cup {name} |->
                                     IF c = name THEN cm ELSE store[c]]]

\* ConfigMaps(namespace).Update: [err, store]
UpdateConfigMap(store, name, cm, fault) ==
    IF fault = "update" THEN [err |-> "update failed", store |-> store]
    ELSE IF name \notin DOMAIN store THEN [err |-> "not found", store |-> store]
    ELSE [err |-> nil, store |-> [store EXCEPT ![name] = cm]]

(***************************************************************************)
(* pkg/operator/discover                                                   *)
(***************************************************************************)
\* the records ListDevices keeps: of the wanted node (any node when nodeName
\* is empty), with a node label, a non-empty text that parses
RawRecordsKept(store, nodeName) ==
    {c \in ListConfigMaps(store, AppName) :
        /\ nodeName = "" \/ store[c].labels.node = nodeName
        /\ store[c].labels.node # ""
        /\ store[c].data # <<>>
        /\ ~Unmarshal(store[c].data).err}

\* ListDevices: [err, devices], devices a map from node to its []LocalDisk
ListDevices(store, nodeName, fault) ==
    IF fault = "list" THEN [err |-> "list failed", devices |-> <<>>]
    ELSE LET kept == RawRecordsKept(store, nodeName)
         IN  [err |-> nil,
              devices |-> [n \in {store[c].labels.node : c \in kept} |->
                  Unmarshal(store[CHOOSE c \in kept : store[c].labels.node = n].data).val]]

\* the in-use records whose node label is nodeName and whose text parses
InUseRecordsKept(store, nodeName) ==
    {c \in ListConfigMaps(store, deviceInUseAppName) :
        /\ store[c].labels.node = nodeName
        /\ nodeName # ""
        /\ store[c].data # <<>>
        /\ ~Unmarshal(store[c].data).err}

\* the record ListDevicesInUse creates for a node that has none
NewInUseConfigMap_WrongApp(nodeName) == ConfigMap(AppName, nodeName, <<>>)

NewInUseConfigMap(nodeName) == ConfigMap(deviceInUseAppName, nodeName, <<>>)

\* ListDevicesInUse: [devices, cm, err, store, calls]; cm is the name of the
\* ConfigMap returned
ListDevicesInUse(store, nodeName, fault) ==
    IF nodeName = ""
    THEN [devices |-> <<>>, cm |-> NoCM, err |-> "empty node name",
          store |-> store, calls |-> <<>>]
    ELSE IF fault = "list"
    THEN [devices |-> <<>>, cm |-> NoCM, err |-> "list failed",
          store |-> store, calls |-> <<"list">>]
    ELSE LET kept == InUseRecordsKept(store, nodeName)
         IN  IF kept # {}
             THEN LET c == CHOOSE c \in kept : TRUE
                  IN  [devices |-> Unmarshal(store[c].data).val, cm |-> c, err |-> nil,
                       store |-> store, calls |-> <<"list">>]
             ELSE LET name == deviceInUseCMName \o nodeName
                      made == CreateConfigMap(store, name,
                                  NewInUseConfigMap(nodeName), fault)
                  IN  [devices |-> <<>>,
                       cm |-> IF made.err = nil THEN name ELSE NoCM,
                       err |-> made.err, store |-> made.store,
                       calls |-> <<"list", "create">>]

\* whether a device of that name is in the list
HasName(list, name) == \E j \in 1..Len(list) : list[j].Name = name

\* the entries of devicesInUse that stay: those no device to free names
RemoveFreed_FirstOnly(devicesInUse, devicesToFree) ==
    LET stillInUse(d) == d.Name # devicesToFree[1].Name
    IN  SelectSeq(devicesInUse, stillInUse)

RemoveFreed(devicesInUse, devicesToFree) ==
    LET stillInUse(d) == ~HasName(devicesToFree, d.Name)
    IN  SelectSeq(devicesInUse, stillInUse)

\* FreeDevices: [err, store, calls]
FreeDevices(store, nodeName, devicesToFree, fault) ==
    IF nodeName = "" \/ Len(devicesToFree) = 0
    THEN [err |-> nil, store |-> store, calls |-> <<>>]
    ELSE IF fault = "list"
    THEN [err |-> "list failed", store |-> store, calls |-> <<"list">>]
    ELSE LET kept == InUseRecordsKept(store, nodeName)
         IN  IF kept = {}
             THEN [err |-> nil, store |-> store, calls |-> <<"list">>]
             ELSE LET c == CHOOSE c \in kept : TRUE
                      devicesInUse == Unmarshal(store[c].data).val
                      newDevicesInUse == RemoveFreed(devicesInUse, devicesToFree)
                      upd == UpdateConfigMap(store, c,
                                 [store[c] EXCEPT !.data = Marshal(newDevicesInUse)], fault)
                  IN  [err |-> upd.err, store |-> upd.store,
                       calls |-> <<"list", "update">>]

\* the devices of nodeAllDevices that no entry of devicesInUse names
FilterInUse_KeepAll(nodeAllDevices, devicesInUse) == nodeAllDevices

FilterInUse(nodeAllDevices, devicesInUse) ==
    LET free(d) == ~HasName(devicesInUse, d.Name)
    IN  SelectSeq(nodeAllDevices, free)

\* the explicit-list loop: for devices[i], every nodeDevices[j] of the same name
\* adds devices[i] to results and nodeDevices[j] to devicesInUse
RECURSIVE SelectByList(_, _)
SelectByList(devices, nodeDevices) ==
    IF devices = <<>> THEN [results |-> <<>>, claimed |-> <<>>]
    ELSE LET same(d) == d.Name = devices[1].Name
             hits == SelectSeq(nodeDevices, same)
             rest == SelectByList(Tail(devices), nodeDevices)
         IN  [results |-> [j \in 1..Len(hits) |-> devices[1]] \o rest.results,
              claimed |-> hits \o rest.claimed]

\* the filter loop: every free device whose name the pattern matches
SelectByFilter(filter, nodeDevices) ==
    LET matches(d) == LET m == RegexpMatch(filter, d.Name)
                      IN  ~m.err /\ m.matched
        hits == SelectSeq(nodeDevices, matches)
    IN  [results |-> [j \in 1..Len(hits) |-> Device(hits[j].Name)], claimed |-> hits]

\* the use-all loop: every free device
SelectAll(nodeDevices) ==
    [results |-> [j \in 1..Len(nodeDevices) |-> Device(nodeDevices[j].Name)],
     claimed |-> nodeDevices]

\* the three policies, in the order the code tests them
SelectDevices(devices, filter, useAllDevices, nodeDevices) ==
    IF Len(devices) > 0 THEN SelectByList(devices, nodeDevices)
    ELSE IF Len(filter) >= 0 THEN SelectByFilter(filter, nodeDevices)
    ELSE IF useAllDevices THEN SelectAll(nodeDevices)
    ELSE [results |-> <<>>, claimed |-> <<>>]

\* the early return: no list, no filter, no use-all flag
NothingRequested_FlagInverted(devices, filter, useAllDevices) ==
    Len(devices) = 0 /\ Len(filter) = 0 /\ useAllDevices

NothingRequested(devices, filter, useAllDevices) ==
    Len(devices) = 0 /\ Len(filter) = 0 /\ ~useAllDevices

\* GetAvailableDevices: [results, err, store, calls]
GetAvailableDevices(store, nodeName, devices, filter, useAllDevices, fault) ==
    IF NothingRequested(devices, filter, useAllDevices)
    THEN [results |-> <<>>, err |-> nil, store |-> store, calls |-> <<>>]
    ELSE LET all == ListDevices(store, nodeName, fault)
         IN
         IF all.err # nil
         THEN [results |-> <<>>, err |-> all.err, store |-> store, calls |-> <<"list">>]
         ELSE IF nodeName \notin DOMAIN all.devices
         THEN [results |-> <<>>, err |-> "node has no devices", store |-> store,
               calls |-> <<"list">>]
         ELSE LET inUse == ListDevicesInUse(store, nodeName, fault)
                  calls2 == <<"list">> \o inUse.calls
              IN
              IF inUse.err # nil
              THEN [results |-> <<>>, err |-> inUse.err, store |-> inUse.store,
                    calls |-> calls2]
              ELSE LET nodeDevices == FilterInUse(all.devices[nodeName], inUse.devices)
                       sel == SelectDevices(devices, filter, useAllDevices, nodeDevices)
                       devicesInUse == inUse.devices \o sel.claimed
                   IN
                   IF Len(sel.results) > 0
                   THEN LET upd == UpdateConfigMap(inUse.store, inUse.cm,
                                       [inUse.store[inUse.cm] EXCEPT
                                           !.data = Marshal(devicesInUse)], fault)
                        IN  [results |-> sel.results, err |-> upd.err,
                             store |-> upd.store, calls |-> calls2 \o <<"update">>]
                   ELSE [results |-> <<>>, err |-> nil, store |-> inUse.store,
                         calls |-> calls2]

(***************************************************************************)
(* pkg/util/sys and pkg/daemon/discover: the device scan.  A raw device is *)
(* given with what the executor and /sys report for it: Nil (a nil entry   *)
(* of the list), Name, Type, Size, PartErr (listing its partitions fails), *)
(* Labels (the labels of its partitions), FsErr (reading its filesystem    *)
(* fails), Fs, ParentErr (the parent listing fails), PKName (the parent    *)
(* column of its line) and Removable (the removable file of its parent:    *)
(* whether reading it fails, and its bytes).                               *)
(***************************************************************************)
PartType == "part"
DiskType == "disk"

HasPrefix(str, prefix) ==
    Len(str) >= Len(prefix) /\ SubSeq(str, 1, Len(prefix)) = prefix

RookOsdPrefix == <<"R", "O", "O", "K", "-", "O", "S", "D">>

\* RookOwnsPartitions, over the labels of the partitions
RookOwnsPartitions_NeedsPartitions(labels) ==
    Len(labels) > 0 /\ \A k \in 1..Len(labels) : HasPrefix(labels[k], RookOsdPrefix)

RookOwnsPartitions(labels) ==
    \A k \in 1..Len(labels) : HasPrefix(labels[k], RookOsdPrefix)

\* CheckIfDeviceAvailable: [ownPartitions, devFS, err]
CheckIfDeviceAvailable(device) ==
    IF device.PartErr
    THEN [ownPartitions |-> FALSE, devFS |-> "", err |-> "failed to get partitions"]
    ELSE IF device.FsErr
    THEN [ownPartitions |-> FALSE, devFS |-> "", err |-> "failed to get filesystem"]
    ELSE [ownPartitions |-> RookOwnsPartitions(device.Labels), devFS |-> device.Fs,
          err |-> nil]

\* GetParentDevice: [parent, err]
GetParentDevice(device) ==
    IF device.ParentErr THEN [parent |-> "", err |-> "command failed"]
    ELSE IF device.PKName = "" THEN [parent |-> device.Name, err |-> nil]
    ELSE [parent |-> device.PKName, err |-> nil]

\* readBoolFromFile: [value, err]
readBoolFromFile(file) ==
    IF file.err THEN [value |-> FALSE, err |-> "read failed"]
    ELSE IF Len(file.bytes) = 0 THEN [value |-> FALSE, err |-> "empty file"]
    ELSE IF file.bytes[1] # "0" /\ file.bytes[1] # "1"
         THEN [value |-> FALSE, err |-> "invalid data"]
    ELSE [value |-> file.bytes[1] = "1", err |-> nil]

\* ProbeDevice: [device, err], device with its Removable flag set
ProbeDevice(name, d, file) ==
    IF name = "" THEN [device |-> d, err |-> nil]
    ELSE LET removable == readBoolFromFile(file)
         IN  IF removable.err # nil THEN [device |-> d, err |-> removable.err]
             ELSE [device |-> [d EXCEPT !.Removable = removable.value], err |-> nil]

\* one pass of the loop of probeDevices: [keep, device]
ProbeOne(device) ==
    IF device.Nil THEN [keep |-> FALSE]
    ELSE IF device.Type = PartType THEN [keep |-> FALSE]
    ELSE LET avail == CheckIfDeviceAvailable(device)
             d == [DevicePath |-> "/dev/" \o device.Name, Size |-> device.Size,
                   OwnPartition |-> avail.ownPartitions, Filesystem |-> avail.devFS,
                   Removable |-> FALSE]
             parent == GetParentDevice(device)
             probed == ProbeDevice(parent.parent, d, device.Removable)
         IN  IF avail.err # nil THEN [keep |-> FALSE]
             ELSE IF parent.err # nil \/ parent.parent = "" THEN [keep |-> FALSE]
             ELSE IF probed.err # nil THEN [keep |-> FALSE]
             ELSE [keep |-> TRUE, device |-> probed.device]

\* the loop of probeDevices over rawDevices
RECURSIVE ProbeLoop_StopAtFailure(_)
ProbeLoop_StopAtFailure(rawDevices) ==
    IF rawDevices = <<>> THEN <<>>
    ELSE LET one == ProbeOne(rawDevices[1])
         IN  IF one.keep THEN <<one.device>> \o ProbeLoop_StopAtFailure(Tail(rawDevices))
             ELSE <<>>

RECURSIVE ProbeLoop(_)
ProbeLoop(rawDevices) ==
    IF rawDevices = <<>> THEN <<>>
    ELSE LET one == ProbeOne(rawDevices[1])
         IN  (IF one.keep THEN <<one.device>> ELSE <<>>) \o ProbeLoop(Tail(rawDevices))

\* probeDevices: [devices, err]; discovered is what clusterd.DiscoverDevices
\* returns, [err, devices]
probeDevices(discovered) ==
    IF discovered.err # nil
    THEN [devices |-> <<>>, err |-> "failed initial hardware discovery"]
    ELSE [devices |-> ProbeLoop(discovered.devices), err |-> nil]

(***************************************************************************)
(* The device scan as a state machine: the hardware report is drawn in the *)
(* initial state, one step runs probeDevices on it.                        *)
(***************************************************************************)
File(bytes) == [err |-> FALSE, bytes |-> bytes]
Unreadable == [err |-> TRUE, bytes |-> <<>>]

\* a disk without partitions and filesystem, its own parent, not removable
PlainDisk(name) ==
    [Nil |-> FALSE, Name |-> name, Type |-> DiskType, Size |-> 100,
     PartErr |-> FALSE, Labels |-> <<>>, FsErr |-> FALSE, Fs |-> "",
     ParentErr |-> FALSE, PKName |-> "", Removable |-> File(<<"0", "\n">>)]

RookLabel == RookOsdPrefix \o <<"1">>
OtherLabel == <<"R", "O", "O", "T">>

\* the raw devices of the model: a plain disk and what differs from it in one
\* respect
RawDeviceKinds ==
    UNION {{ PlainDisk(name),
             [PlainDisk(name) EXCEPT !.Nil = TRUE],
             [PlainDisk(name) EXCEPT !.Type = PartType],
             [PlainDisk(name) EXCEPT !.PartErr = TRUE],
             [PlainDisk(name) EXCEPT !.Labels = <<RookLabel>>],
             [PlainDisk(name) EXCEPT !.Labels = <<RookLabel, OtherLabel>>],
             [PlainDisk(name) EXCEPT !.Labels = <<RookLabel, RookOsdPrefix>>],
             [PlainDisk(name) EXCEPT !.Labels = <<<<"x">> \o RookOsdPrefix, RookLabel>>],
             [PlainDisk(name) EXCEPT !.FsErr = TRUE],
             [PlainDisk(name) EXCEPT !.Fs = "ext2"],
             [PlainDisk(name) EXCEPT !.ParentErr = TRUE],
             [PlainDisk(name) EXCEPT !.PKName = "testp"],
             [PlainDisk(name) EXCEPT !.Removable = File(<<"1", "\n">>)],
             [PlainDisk(name) EXCEPT !.Removable = File(<<>>)],
             [PlainDisk(name) EXCEPT !.Removable = File(<<"x">>)],
             [PlainDisk(name) EXCEPT !.Removable = Unreadable] }
           : name \in {"testa", "testb"}}
    \cup {PlainDisk("")}

\* what clusterd.DiscoverDevices returns
Discovered(err, devices) == [err |-> err, devices |-> devices]

ProbeInputs ==
    {Discovered(nil, l) : l \in SeqsUpTo(RawDeviceKinds, MaxRawDevices)}
    \cup {Discovered("lsblk failed", <<>>)}

ProbeParked ==
    /\ probeIn = Discovered(nil, <<>>)
    /\ probeOut = [done |-> TRUE, devices |-> <<>>, err |-> nil]

ProbeInit ==
    /\ probeIn \in ProbeInputs
    /\ probeOut = [done |-> FALSE, devices |-> <<>>, err |-> nil]

(***************************************************************************)
(* pkg/daemon/discover: Run, step by step.  dpc is "idle" (not started),   *)
(* "probe", "get", "create", "publish" (the comparison and the update),    *)
(* "notify" (published, signal.Notify not yet called), "wait" (blocked in  *)
(* the select), "returned" or "killed" (a SIGTERM before signal.Notify     *)
(* ends the process).  dlog lists the calls of the current run.            *)
(***************************************************************************)
\* NODE_NAME of the daemon's pod
daemonNode == "n1"
cmName == RawDeviceCMName \o daemonNode

\* ConfigMaps(namespace).Get: [err, cm]
GetConfigMap(store, name, fault) ==
    IF fault THEN [err |-> "get failed", cm |-> NoCM]
    ELSE IF name \notin DOMAIN store THEN [err |-> "not found", cm |-> NoCM]
    ELSE [err |-> nil, cm |-> store[name]]

\* errors.IsNotFound
IsNotFound(err) == err = "not found"

\* the read error that ends Run
GetIsFatal_Never(err) == FALSE

GetIsFatal(err) == err # nil /\ ~IsNotFound(err)

\* the comparison that decides the update
NeedsUpdate_Always(newStr, oldStr) == TRUE

NeedsUpdate(newStr, oldStr) == newStr # oldStr

\* the select of the wait loop returns when a signal is in the channel
WaitReturns_NoWait(channel) == TRUE

WaitReturns(channel) == channel

\* the scans of the model: no device, one disk, two disks (one with a
\* filesystem), a disk and a device whose check fails, a failed discovery
ScanInputs ==
    {Discovered(nil, <<>>),
     Discovered(nil, <<PlainDisk("testa")>>),
     Discovered(nil, <<PlainDisk("testa"), [PlainDisk("testb") EXCEPT !.Fs = "ext2"]>>),
     Discovered(nil, <<[PlainDisk("testa") EXCEPT !.FsErr = TRUE], PlainDisk("testb")>>),
     Discovered("lsblk failed", <<>>)}

DaemonParked ==
    /\ dpc = "idle" /\ dret = nil /\ contextNil = FALSE
    /\ nodeStore = <<>> /\ storeBefore = <<>>
    /\ dscan = <<>> /\ deviceStr = <<>> /\ lastDevice = <<>> /\ getErr = nil
    /\ dlog = <<>> /\ sigc = FALSE

DaemonInit == DaemonParked

Return(err) == dpc' = "returned" /\ dret' = err

\* Run is called; a nil context returns at once
RunStart ==
    /\ dpc = "idle"
    /\ \E context \in {"nil", "set"} :
          /\ contextNil' = (context = "nil")
          /\ IF context = "nil" THEN Return("nil context")
             ELSE dpc' = "probe" /\ dret' = nil
    /\ storeBefore' = nodeStore
    /\ dscan' = <<>> /\ deviceStr' = <<>> /\ lastDevice' = <<>> /\ getErr' = nil
    /\ dlog' = <<>> /\ sigc' = FALSE
    /\ UNCHANGED <<nodeStore, notDaemon>>

\* probeDevices and json.Marshal (which cannot fail for a []RawDevice)
RunProbe ==
    /\ dpc = "probe"
    /\ \E discovered \in ScanInputs :
          \E r \in {probeDevices(discovered)} :
             IF r.err # nil
             THEN Return(r.err) /\ UNCHANGED <<dscan, deviceStr>>
             ELSE /\ dscan' = r.devices
                  /\ deviceStr' = Marshal(r.devices)
                  /\ dpc' = "get" /\ UNCHANGED dret
    /\ dlog' = Append(dlog, "probe")
    /\ UNCHANGED <<contextNil, notDaemon,
                   nodeStore, storeBefore, lastDevice, getErr, sigc>>

\* the read of the record
RunGet ==
    /\ dpc = "get"
    /\ \E fault \in BOOLEAN :
          \E r \in {GetConfigMap(nodeStore, cmName, fault)} :
             /\ getErr' = r.err
             /\ IF r.err = nil
                THEN lastDevice' = r.cm.data /\ dpc' = "publish" /\ UNCHANGED dret
                ELSE IF GetIsFatal(r.err)
                THEN Return(r.err) /\ UNCHANGED lastDevice
                ELSE dpc' = "create" /\ UNCHANGED <<dret, lastDevice>>
    /\ dlog' = Append(dlog, "get")
    /\ UNCHANGED <<contextNil, notDaemon,
                   nodeStore, storeBefore, dscan, deviceStr, sigc>>

\* the record does not exist: create it, without data
RunCreate ==
    /\ dpc = "create"
    /\ \E fault \in {"none", "create"} :
          \E r \in {CreateConfigMap(nodeStore, cmName,
                                     ConfigMap(AppName, daemonNode, <<>>), fault)} :
             /\ nodeStore' = r.store
             /\ IF r.err # nil THEN Return("failed to create raw device map")
                ELSE dpc' = "publish" /\ UNCHANGED dret
    /\ dlog' = Append(dlog, "create")
    /\ UNCHANGED <<contextNil, notDaemon,
                   storeBefore, dscan, deviceStr, lastDevice, getErr, sigc>>

\* the update when the text differs
RunPublish ==
    /\ dpc = "publish"
    /\ IF NeedsUpdate(deviceStr, lastDevice)
       THEN \E fault \in {"none", "update"} :
               \E r \in {UpdateConfigMap(nodeStore, cmName,
                              [nodeStore[cmName] EXCEPT !.data = deviceStr], fault)} :
                  /\ nodeStore' = r.store
                  /\ dlog' = Append(dlog, "update")
                  /\ IF r.err # nil THEN Return(r.err)
                     ELSE dpc' = "notify" /\ UNCHANGED dret
       ELSE dpc' = "notify" /\ UNCHANGED <<dret, nodeStore, dlog>>
    /\ UNCHANGED <<contextNil, notDaemon,
                   storeBefore, dscan, deviceStr, lastDevice, getErr, sigc>>

\* signal.Notify: from now on a SIGTERM goes into the channel
RunNotify ==
    /\ dpc = "notify"
    /\ dpc' = "wait"
    /\ UNCHANGED <<contextNil, notDaemon,
                   dret, nodeStore, storeBefore, dscan, deviceStr, lastDevice,
                   getErr, dlog, sigc>>

\* a SIGTERM while Run waits goes into the channel
SigtermNotified ==
    /\ dpc = "wait"
    /\ sigc' = TRUE
    /\ UNCHANGED <<contextNil, notDaemon,
                   dpc, dret, nodeStore, storeBefore, dscan, deviceStr, lastDevice,
                   getErr, dlog>>

\* a SIGTERM before signal.Notify ends the process
SigtermKills ==
    /\ dpc \in {"probe", "get", "create", "publish", "notify"}
    /\ dpc' = "killed"
    /\ UNCHANGED <<contextNil, notDaemon,
                   dret, nodeStore, storeBefore, dscan, deviceStr, lastDevice,
                   getErr, dlog, sigc>>

\* the select receives the signal and Run returns nil
RunReceive ==
    /\ dpc = "wait"
    /\ WaitReturns(sigc)
    /\ Return(nil)
    /\ UNCHANGED <<contextNil, notDaemon,
                   nodeStore, storeBefore, dscan, deviceStr, lastDevice, getErr,
                   dlog, sigc>>

\* the platform starts the pod again
Restart ==
    /\ dpc \in {"returned", "killed"}
    /\ dpc' = "idle"
    /\ UNCHANGED <<contextNil, notDaemon,
                   dret, nodeStore, storeBefore, dscan, deviceStr, lastDevice,
                   getErr, dlog, sigc>>

(***************************************************************************)
(* pkg/operator: Operator.Run, step by step.  opc is "idle", "init" (about *)
(* to call initResources), "initwait" (in <-time.After), "agent",          *)
(* "notify" (lines 105-107), "version", "provision", "watch", "wait" (the  *)
(* select of the main loop), "returned" or "killed" (a SIGINT or SIGTERM   *)
(* before signal.Notify ends the process).                                 *)
(***************************************************************************)
\* initRetryDelay, in seconds
initRetryDelay == 10

SIGINT == "SIGINT"
SIGTERM == "SIGTERM"

\* the values of POD_NAMESPACE
Namespaces == {"", "rook-system"}

\* the check of the namespace
NamespaceMissing_Never(ns) == FALSE

NamespaceMissing(ns) == ns = ""

\* initResources: the error of opkit.CreateCustomResources, wrapped
initResources(createErr) ==
    IF createErr # nil THEN "failed to create custom resource" ELSE nil

\* the test that leaves the registration loop
InitDone_Always(err) == TRUE

InitDone(err) == err = nil

\* a send of the signal package: dropped when the channel is full
NotifySend(channel, sig) == IF Len(channel) < 1 THEN Append(channel, sig) ELSE channel

\* the case <-signalChan of the main loop is ready
SignalReady_Always(channel) == TRUE

SignalReady(channel) == channel # <<>>

OperatorParked ==
    /\ opc = "idle" /\ oret = nil /\ namespace = "" /\ initAttempts = 0
    /\ initErr = nil /\ oclock = 0 /\ olog = <<>> /\ signalChan = <<>>
    /\ received = "none" /\ stopChan = 0

OperatorInit == OperatorParked

OpReturn(err) == opc' = "returned" /\ oret' = err

\* Run is called: the namespace is read from the environment
OpRunStart ==
    /\ opc = "idle"
    /\ \E ns \in Namespaces :
          /\ namespace' = ns
          /\ IF NamespaceMissing(ns)
             THEN OpReturn("Rook operator namespace is not provided")
             ELSE opc' = "init" /\ oret' = nil
    /\ initAttempts' = 0 /\ initErr' = nil /\ oclock' = 0 /\ olog' = <<>>
    /\ signalChan' = <<>> /\ received' = "none" /\ stopChan' = 0
    /\ UNCHANGED notOperator

\* one attempt of the schema registration
OpInitResources ==
    /\ opc = "init"
    /\ \E createErr \in {nil, "create failed"} :
          /\ createErr # nil => initAttempts < MaxInitAttempts
          /\ \E err \in {initResources(createErr)} :
                /\ initErr' = err
                /\ opc' = IF InitDone(err) THEN "agent" ELSE "initwait"
    /\ initAttempts' = initAttempts + 1
    /\ olog' = Append(olog, "initResources")
    /\ UNCHANGED <<oret, namespace, oclock, signalChan, received, stopChan, notOperator>>

\* <-time.After(initRetryDelay)
OpRetryDelay ==
    /\ opc = "initwait"
    /\ oclock' = oclock + initRetryDelay
    /\ opc' = "init"
    /\ UNCHANGED <<oret, namespace, initAttempts, initErr, olog, signalChan, received,
                   stopChan, notOperator>>

\* the test of an error that makes Run return
Fatal_Never(err) == FALSE

Fatal(err) == err # nil

\* rookAgent.Start; the log tells the call and, after it, its failure
OpStartAgent ==
    /\ opc = "agent"
    /\ \E err \in {nil, "start failed"} :
          /\ IF Fatal(err) THEN OpReturn("Error starting agent daemonset")
             ELSE opc' = "notify" /\ UNCHANGED oret
          /\ olog' = olog \o (IF err # nil THEN <<"agent", "agent failed">> ELSE <<"agent">>)
    /\ UNCHANGED <<namespace, initAttempts, initErr, oclock, signalChan, received,
                   stopChan, notOperator>>

\* the two channels are made and signal.Notify is called
OpNotify ==
    /\ opc = "notify"
    /\ opc' = "version"
    /\ UNCHANGED <<oret, namespace, initAttempts, initErr, oclock, olog, signalChan,
                   received, stopChan, notOperator>>

\* Discovery().ServerVersion()
OpServerVersion ==
    /\ opc = "version"
    /\ \E err \in {nil, "version failed"} :
          /\ IF Fatal(err) THEN OpReturn("Error getting server version")
             ELSE opc' = "provision" /\ UNCHANGED oret
          /\ olog' = olog \o (IF err # nil THEN <<"version", "version failed">>
                               ELSE <<"version">>)
    /\ UNCHANGED <<namespace, initAttempts, initErr, oclock, signalChan, received,
                   stopChan, notOperator>>

\* go pc.Run(stopChan)
OpStartProvisioner ==
    /\ opc = "provision"
    /\ opc' = "watch"
    /\ olog' = Append(olog, "provisioner")
    /\ UNCHANGED <<oret, namespace, initAttempts, initErr, oclock, signalChan, received,
                   stopChan, notOperator>>

\* clusterController.StartWatch(v1.NamespaceAll, stopChan)
OpStartWatch ==
    /\ opc = "watch"
    /\ opc' = "wait"
    /\ olog' = Append(olog, "watch")
    /\ UNCHANGED <<oret, namespace, initAttempts, initErr, oclock, signalChan, received,
                   stopChan, notOperator>>

\* a SIGINT or SIGTERM once signal.Notify was called goes into signalChan
OpSignalNotified ==
    /\ opc \in {"version", "provision", "watch", "wait"}
    /\ \E sig \in {SIGINT, SIGTERM} : signalChan' = NotifySend(signalChan, sig)
    /\ UNCHANGED <<opc, oret, namespace, initAttempts, initErr, oclock, olog, received,
                   stopChan, notOperator>>

\* a SIGINT or SIGTERM before signal.Notify ends the process
OpSignalKills ==
    /\ opc \in {"init", "initwait", "agent", "notify"}
    /\ opc' = "killed"
    /\ UNCHANGED <<oret, namespace, initAttempts, initErr, oclock, olog, signalChan,
                   received, stopChan, notOperator>>

\* the main loop receives the signal, closes stopChan and Run returns nil
OpReceive ==
    /\ opc = "wait"
    /\ SignalReady(signalChan)
    /\ received' = IF signalChan # <<>> THEN Head(signalChan) ELSE "none"
    /\ signalChan' = IF signalChan # <<>> THEN Tail(signalChan) ELSE signalChan
    /\ stopChan' = stopChan + 1
    /\ OpReturn(nil)
    /\ UNCHANGED <<namespace, initAttempts, initErr, oclock, olog, notOperator>>

\* the platform starts the operator again
OpRestart ==
    /\ opc \in {"returned", "killed"}
    /\ opc' = "idle"
    /\ UNCHANGED <<oret, namespace, initAttempts, initErr, oclock, olog, signalChan,
                   received, stopChan, notOperator>>

(***************************************************************************)
(* The OSD agent: waitForRebalance, poll by poll.  Phase 1 waits for the   *)
(* usage of the OSD to drop below the baseline, phase 2 for the OSD to     *)
(* leave every placement group and the cluster to be clean.                *)
(***************************************************************************)
\* the attempts of the two retry loops
Phase1Retries == 20
Phase2Retries == 3000

\* the OSD that is removed, and another OSD of the cluster
osdID == 1
otherOSD == 2

\* client.OSDUsage: the OSD nodes of "ceph osd df"
OSDNode(id, usedKB, pgs) == [ID |-> id, UsedKB |-> usedKB, Pgs |-> pgs]
\* the nil *OSDNode
NoOSD == OSDNode(-1, 0, 0)

\* a *client.OSDUsage, nil or not
Usage(nodes) == [isNil |-> FALSE, nodes |-> nodes]
NoUsage == [isNil |-> TRUE, nodes |-> <<>>]

\* OSDUsage.ByID
ByID(usage, id) ==
    IF \E k \in DOMAIN usage.nodes : usage.nodes[k].ID = id
    THEN usage.nodes[CHOOSE k \in DOMAIN usage.nodes :
                        /\ usage.nodes[k].ID = id
                        /\ \A j \in 1..(k - 1) : usage.nodes[j].ID # id]
    ELSE NoOSD

\* the comparison of the current usage with the baseline
NotDecreased_Both(curr, init) == curr.UsedKB >= init.UsedKB \/ curr.Pgs >= init.Pgs

NotDecreased(curr, init) == curr.UsedKB >= init.UsedKB /\ curr.Pgs >= init.Pgs

\* one poll of phase 1: the error of the retried function, nil when the
\* rebalancing has started.  poll is what client.GetOSDUsage returns
UsagePoll(init0, poll, id) ==
    IF poll.err # nil THEN poll.err
    ELSE LET init == ByID(init0, id)
             curr == ByID(poll.usage, id)
         IN  IF init = NoOSD \/ curr = NoOSD THEN "usage not found"
             ELSE IF NotDecreased(curr, init) THEN "not decreased"
             ELSE nil

\* a placement group of the brief dump
PG(id, upPrimary, actingPrimary, up, acting) ==
    [ID |-> id, UpPrimaryID |-> upPrimary, ActingPrimaryID |-> actingPrimary,
     UpOsdIDs |-> up, ActingOsdIDs |-> acting]

\* the checks of one placement group, in the order of the code
PGStillUses_PrimariesOnly(pg, id) ==
    IF pg.UpPrimaryID = id THEN "still up primary"
    ELSE IF pg.ActingPrimaryID = id THEN "still acting primary"
    ELSE nil

PGStillUses(pg, id) ==
    IF pg.UpPrimaryID = id THEN "still up primary"
    ELSE IF pg.ActingPrimaryID = id THEN "still acting primary"
    ELSE IF \E k \in DOMAIN pg.UpOsdIDs : pg.UpOsdIDs[k] = id THEN "still up"
    ELSE IF \E k \in DOMAIN pg.ActingOsdIDs : pg.ActingOsdIDs[k] = id THEN "still acting"
    ELSE nil

RECURSIVE PGDumpStillUses(_, _)
PGDumpStillUses(pgDump, id) ==
    IF pgDump = <<>> THEN nil
    ELSE LET e == PGStillUses(Head(pgDump), id)
         IN  IF e # nil THEN e ELSE PGDumpStillUses(Tail(pgDump), id)

\* one poll of phase 2: the error of the retried function.  poll is what
\* client.GetPGDumpBrief and client.IsClusterClean return
PGPoll(poll, id) ==
    IF poll.err # nil THEN poll.err
    ELSE LET e == PGDumpStillUses(poll.pgDump, id)
         IN  IF e # nil THEN e ELSE poll.clean

\* util.Retry gives up after maxRetries failed attempts
RetryExhausted_OneMore(tries, maxRetries) == tries > maxRetries

RetryExhausted(tries, maxRetries) == tries >= maxRetries

\* the baselines and the polls of the model
Baselines ==
    {NoUsage, Usage(<<>>), Usage(<<OSDNode(otherOSD, 2, 2)>>),
     Usage(<<OSDNode(otherOSD, 1, 1), OSDNode(osdID, 2, 2)>>)}

UsagePolls ==
    {[err |-> "osd df failed", usage |-> NoUsage],
     [err |-> nil, usage |-> Usage(<<OSDNode(otherOSD, 1, 1)>>)]}
    \cup {[err |-> nil, usage |-> Usage(<<OSDNode(otherOSD, 1, 1), OSDNode(osdID, u, g)>>)] :
            u \in 1..3, g \in 1..3}

CleanPG == PG("1.0", otherOSD, otherOSD, <<otherOSD>>, <<otherOSD>>)

\* the dumps in which the OSD is still used, one for each check
UsedPGDumps ==
    {<<PG("1.1", osdID, otherOSD, <<otherOSD>>, <<otherOSD>>)>>,
     <<CleanPG, PG("1.1", otherOSD, osdID, <<otherOSD>>, <<otherOSD>>)>>,
     <<CleanPG, PG("1.1", otherOSD, otherOSD, <<otherOSD, osdID>>, <<otherOSD>>)>>,
     <<CleanPG, PG("1.1", otherOSD, otherOSD, <<otherOSD>>, <<otherOSD, osdID>>)>>}

\* client.IsClusterClean is called only when no placement group uses the OSD
PGPolls ==
    {[err |-> "pg dump failed", pgDump |-> <<>>, clean |-> nil]}
    \cup {[err |-> nil, pgDump |-> d, clean |-> nil] : d \in UsedPGDumps}
    \cup {[err |-> nil, pgDump |-> <<CleanPG>>, clean |-> c] :
            c \in {nil, "cluster is not fully clean"}}

NoPoll == [err |-> nil]

RebalanceParked ==
    /\ wpc = "idle" /\ wret = nil /\ initialUsage = NoUsage
    /\ tries1 = 0 /\ tries2 = 0 /\ wpoll = NoPoll

RebalanceInit == RebalanceParked

\* waitForRebalance is called
WaitStart ==
    /\ wpc = "idle"
    /\ \E usage \in Baselines :
          /\ initialUsage' = usage
          /\ wpc' = IF usage.isNil THEN "phase2" ELSE "phase1"
    /\ UNCHANGED <<wret, tries1, tries2, wpoll, notRebalance>>

\* one attempt of the first retry loop
Phase1Poll ==
    /\ wpc = "phase1"
    /\ \E poll \in UsagePolls :
          \E err \in {UsagePoll(initialUsage, poll, osdID)} :
             /\ wpoll' = poll
             /\ tries1' = tries1 + 1
             /\ IF err = nil THEN wpc' = "phase2" /\ UNCHANGED wret
                ELSE IF RetryExhausted(tries1 + 1, Phase1Retries)
                THEN wpc' = "returned" /\ wret' = "max retries exceeded"
                ELSE UNCHANGED <<wpc, wret>>
    /\ UNCHANGED <<initialUsage, tries2, notRebalance>>

\* one attempt of the second retry loop
Phase2Poll ==
    /\ wpc = "phase2"
    /\ \E poll \in PGPolls :
          \E err \in {PGPoll(poll, osdID)} :
             /\ wpoll' = poll
             /\ tries2' = tries2 + 1
             /\ IF err = nil THEN wpc' = "returned" /\ wret' = nil
                ELSE IF RetryExhausted(tries2 + 1, Phase2Retries)
                THEN wpc' = "returned" /\ wret' = "max retries exceeded"
                ELSE UNCHANGED <<wpc, wret>>
    /\ UNCHANGED <<initialUsage, tries1, notRebalance>>

(***************************************************************************)
(* The OSD agent: errors and their texts.  A text is a sequence of pieces; *)
(* the piece "% d" stands for a percent sign followed by a verb, "%%" for  *)
(* two percent signs.                                                      *)
(***************************************************************************)
\* a Go error: nil, or an error with its text
NoError == [isNil |-> TRUE, text |-> <<>>]
Error(text) == [isNil |-> FALSE, text |-> text]

\* fmt.Errorf called with the text as its format and no further argument: a
\* verb finds no operand
Errorf(format) ==
    Error([k \in DOMAIN format |->
             IF format[k] = "% d" THEN "%!d(MISSING)"
             ELSE IF format[k] = "%%" THEN "%"
             ELSE format[k]])

\* strings.Join
RECURSIVE Join(_, _)
Join(texts, sep) ==
    IF texts = <<>> THEN <<>>
    ELSE IF Len(texts) = 1 THEN texts[1]
    ELSE texts[1] \o <<sep>> \o Join(Tail(texts), sep)

\* the errors of the commands and calls the agent makes
ExecFailed == Error(<<"exit status 1">>)
ExecOutcomes == {NoError, ExecFailed}

(***************************************************************************)
(* The OSD agent: removeOSD.  env holds what each call of the sequence     *)
(* returns; the result is the error and the calls made, in order.          *)
(***************************************************************************)
osdConfig(id, configRoot, dir, partitionScheme, storeType) ==
    [id |-> id, configRoot |-> configRoot, dir |-> dir, partitionScheme |-> partitionScheme,
     storeConfig |-> [StoreType |-> storeType]]

\* the nil *config.PerfSchemeEntry
NoSchemeEntry == [isNil |-> TRUE]

RemoveEnv(usage, reweight, markOut, rebalance, stop, purge, fs, rmdir) ==
    [usage |-> usage, reweight |-> reweight, markOut |-> markOut,
     rebalance |-> rebalance, stop |-> stop, purge |-> purge, fs |-> fs,
     rmdir |-> rmdir]

\* the test of what waitForRebalance returned
RebalanceFailed_Ignored(err) == FALSE

RebalanceFailed(err) == ~err.isNil

\* the two deletions that end the removal
removeOSDCleanup_Fatal(config, env, log) ==
    IF ~env.fs.isNil
    THEN [err |-> Error(<<"failed to delete osd.", ToString(config.id), " filesystem">>),
          log |-> log \o <<"deleteOSDFileSystem">>]
    ELSE [err |-> NoError, log |-> log \o <<"deleteOSDFileSystem", "RemoveAll">>]

removeOSDCleanup(config, env, log) ==
    [err |-> NoError, log |-> log \o <<"deleteOSDFileSystem", "RemoveAll">>]

\* removeOSD, for an agent that tracks the processes of procs
removeOSD(procs, config, env) ==
    LET id == ToString(config.id)
        log2 == <<"GetOSDUsage", "CrushReweight">>
        log3 == log2 \o <<"markOSDOut">>
        log4 == log3 \o <<"waitForRebalance">>
        log5 == IF config.id \in procs THEN log4 \o <<"Stop">> ELSE log4
        log6 == log5 \o <<"purgeOSD">>
    IN  IF ~env.reweight.isNil
        THEN [err |-> Error(<<"failed to reweight osd.", id, " to 0.0: ">>
                            \o env.reweight.text \o <<". ">>),
              log |-> log2]
        ELSE IF ~env.markOut.isNil
        THEN [err |-> Error(<<"failed to mark osd.", id, " out: ">> \o env.markOut.text),
              log |-> log3]
        ELSE IF RebalanceFailed(env.rebalance)
        THEN [err |-> Error(<<"failed to wait for cluster rebalancing after removing osd.",
                              id, ": ">> \o env.rebalance.text),
              log |-> log4]
        ELSE IF config.id \in procs /\ ~env.stop.isNil
        THEN [err |-> Error(<<"failed to stop proc for osd.", id, ": ">> \o env.stop.text),
              log |-> log5]
        ELSE IF ~env.purge.isNil
        THEN [err |-> Error(<<"failed to purge osd.", id, " from the cluster: ">>
                            \o env.purge.text),
              log |-> log6]
        ELSE removeOSDCleanup(config, env, log6)

(***************************************************************************)
(* The OSD agent: startOSD and configureDirs.  env holds what the calls of *)
(* the start sequence return and what they find on the disk.               *)
(***************************************************************************)
unassignedOSDID == -1

StartEnv(remount, newOSD, mkdir, load, ids, format, init, conf, info, whoami, run, up) ==
    [remount |-> remount, newOSD |-> newOSD, mkdir |-> mkdir, loadScheme |-> load,
     savedIDs |-> ids, format |-> format, initialize |-> init, writeConfig |-> conf,
     loadInfo |-> info, whoami |-> whoami, run |-> run, running |-> up,
     forceFormat |-> FALSE]

\* getOSDRootDir
getOSDRootDir(root, id) == <<root, "/osd", ToString(id)>>

\* oposd.OSDInfo, and the nil *OSDInfo
OSDInfo(id, dataPath, isFileStore) ==
    [isNil |-> FALSE, ID |-> id, DataPath |-> dataPath, IsFileStore |-> isFileStore]
NoOSDInfo ==
    [isNil |-> TRUE, ID |-> unassignedOSDID, DataPath |-> <<>>, IsFileStore |-> FALSE]

\* the store types of the configuration; the blank one is the default
Filestore == "filestore"
Bluestore == "bluestore"

isBluestoreDevice(cfg) ==
    ~cfg.dir /\ ~cfg.partitionScheme.isNil /\ cfg.partitionScheme.StoreType # Filestore

isBluestoreDir(cfg) == cfg.dir /\ cfg.storeConfig.StoreType = Bluestore

isBluestore(cfg) == isBluestoreDevice(cfg) \/ isBluestoreDir(cfg)

isFilestoreDevice(cfg) ==
    ~cfg.dir /\ ~cfg.partitionScheme.isNil /\ cfg.partitionScheme.StoreType = Filestore

isFilestoreDir_OnlyWhenAsked(cfg) == cfg.dir /\ cfg.storeConfig.StoreType = Filestore

isFilestoreDir(cfg) == cfg.dir /\ cfg.storeConfig.StoreType # Bluestore

isFilestore(cfg) == isFilestoreDevice(cfg) \/ isFilestoreDir(cfg)

\* the test of the mode of the agent at the end of startOSD
PrepareOnlyReturns_Never(prepareOnly) == FALSE

PrepareOnlyReturns(prepareOnly) == prepareOnly

\* runOSD: [err, procs], procs with the handle procMan.Start returned, if any
runOSD(procs, osdInfo, env) ==
    IF ~env.run.isNil
    THEN [err |-> Error(<<"failed to start osd ", ToString(osdInfo.ID), ": ">>
                        \o env.run.text),
          procs |-> procs]
    ELSE [err |-> NoError,
          procs |-> IF env.running THEN procs ELSE procs \cup {osdInfo.ID}]

\* the end of startOSD, with the ID the OSD has by then
startOSDRun(procs, cfg, id, env, prepareOnly, log) ==
    LET osdInfo == OSDInfo(id, getOSDRootDir(cfg.configRoot, cfg.id), isFilestore(cfg))
        ran == runOSD(procs, osdInfo, env)
    IN  IF PrepareOnlyReturns(prepareOnly)
        THEN [osd |-> osdInfo, err |-> NoError, procs |-> procs, log |-> log]
        ELSE IF ~ran.err.isNil
        THEN [osd |-> osdInfo,
              err |-> Error(<<"failed to run osd ", ToString(id), ": ">> \o ran.err.text),
              procs |-> procs, log |-> log \o <<"runOSD">>]
        ELSE [osd |-> osdInfo, err |-> NoError, procs |-> ran.procs,
              log |-> log \o <<"runOSD">>]

\* the content of a file is the sequence of its characters
IsSpace(c) == c \in {" ", "\n", "\t", "\r"}

\* strings.TrimSpace
RECURSIVE TrimLeft(_)
TrimLeft(s) == IF s # <<>> /\ IsSpace(Head(s)) THEN TrimLeft(Tail(s)) ELSE s

RECURSIVE TrimRight(_)
TrimRight(s) ==
    IF s # <<>> /\ IsSpace(s[Len(s)]) THEN TrimRight(SubSeq(s, 1, Len(s) - 1)) ELSE s

TrimSpace(s) == TrimRight(TrimLeft(s))

DecimalDigits == <<"0", "1", "2", "3", "4", "5", "6", "7", "8", "9">>

IsDigit(c) == \E d \in DOMAIN DecimalDigits : DecimalDigits[d] = c

DigitValue(c) == (CHOOSE d \in DOMAIN DecimalDigits : DecimalDigits[d] = c) - 1

RECURSIVE DigitsValue(_, _)
DigitsValue(s, n) == IF s = <<>> THEN n ELSE DigitsValue(Tail(s), 10 * n + DigitValue(Head(s)))

\* strconv.Atoi: [err, n], for an optional sign and decimal digits
Atoi(s) ==
    LET signed == s # <<>> /\ Head(s) \in {"+", "-"}
        digits == IF signed THEN Tail(s) ELSE s
    IN  IF digits = <<>> \/ \E k \in DOMAIN digits : ~IsDigit(digits[k])
        THEN [err |-> Error(<<"strconv.Atoi: parsing: invalid syntax">>), n |-> 0]
        ELSE [err |-> NoError,
              n |-> IF signed /\ Head(s) = "-" THEN 0 - DigitsValue(digits, 0)
                    ELSE DigitsValue(digits, 0)]

\* the text of a UUID is one unit of the content of a file; uuid.Parse takes the
\* canonical text and nothing else of what the files of the model hold
UUIDTexts == {"6ba7b810-9dad-11d1-80b4-00c04fd430c8"}

uuidParse(s) ==
    IF Len(s) = 1 /\ s[1] \in UUIDTexts THEN NoError
    ELSE Error(<<"invalid UUID length">>)

\* a file of the root directory of an OSD: what ReadFile returns
MarkerFile(err, content) == [err |-> err, content |-> content]

\* loadOSDInfo for the files whoami and fsid: [err, id]
loadOSDInfo(whoami, fsid) ==
    LET osdID_ == Atoi(TrimSpace(whoami.content))
        failed(text) == [err |-> Error(text), id |-> unassignedOSDID]
    IN  IF ~whoami.err.isNil
        THEN failed(<<"failed to read OSD ID from whoami: ">> \o whoami.err.text)
        ELSE IF ~osdID_.err.isNil
        THEN failed(<<"failed to parse OSD ID from whoami: ">> \o osdID_.err.text)
        ELSE IF ~fsid.err.isNil
        THEN failed(<<"failed to read UUID from fsid: ">> \o fsid.err.text)
        ELSE IF ~uuidParse(TrimSpace(fsid.content)).isNil
        THEN failed(<<"failed to parse UUID from fsid: ">>
                    \o uuidParse(TrimSpace(fsid.content)).text)
        ELSE [err |-> NoError, id |-> osdID_.n]

\* the test of what loadOSDInfo returned
LoadInfoFailed_Ignored(err) == FALSE

LoadInfoFailed(err) == ~err.isNil

\* the search of the saved scheme for the entry of the OSD; env.forceFormat is
\* the flag of the agent, which only formatDevice is handed
skipFormat_UnlessForced(cfg, env) == cfg.id \in env.savedIDs /\ ~env.forceFormat

skipFormat(cfg, env) == cfg.id \in env.savedIDs

\* startOSD: [osd, err, procs, log]
startOSD(procs, cfg, env, prepareOnly) ==
    LET failed(text, log) ==
            [osd |-> NoOSDInfo, err |-> Error(text), procs |-> procs, log |-> log]
        log1 == <<"remountFilestoreDeviceIfNeeded">>
        log2 == log1 \o <<"prepareOSDRoot">>
        skip == skipFormat(cfg, env)
        log3 == IF cfg.partitionScheme.isNil THEN log2 ELSE log2 \o <<"LoadScheme">>
        log4 == IF cfg.partitionScheme.isNil \/ skip THEN log3
                ELSE log3 \o <<"formatDevice">>
        log5 == log4 \o <<"initializeOSD">>
        log6 == log2 \o <<"writeConfigFile", "loadOSDInfo">>
    IN  IF ~env.remount.isNil THEN failed(env.remount.text, log1)
        ELSE IF env.newOSD /\ ~env.mkdir.isNil
        THEN failed(<<"failed to make osd.", ToString(cfg.id), " config: ">>
                    \o env.mkdir.text, log2)
        ELSE IF env.newOSD
        THEN IF ~cfg.partitionScheme.isNil /\ ~env.loadScheme.isNil
             THEN failed(<<"failed to load the saved partition scheme: ">>
                         \o env.loadScheme.text, log3)
             ELSE IF ~cfg.partitionScheme.isNil /\ ~skip /\ ~env.format.isNil
             THEN failed(<<"failed format/partition of osd ", ToString(cfg.id), ". ">>
                         \o env.format.text, log4)
             ELSE IF ~env.initialize.isNil
             THEN failed(<<"failed to initialize OSD: ">> \o env.initialize.text, log5)
             ELSE startOSDRun(procs, cfg, cfg.id, env, prepareOnly, log5)
        ELSE IF LoadInfoFailed(env.loadInfo)
             THEN failed(<<"failed to get OSD information: ">> \o env.loadInfo.text, log6)
             ELSE startOSDRun(procs, cfg, env.whoami, env, prepareOnly, log6)

\* what registerOSD returns
Registered(id) == [err |-> NoError, id |-> id]
RegisterFailed == [err |-> Error(<<"failed to create osd">>), id |-> unassignedOSDID]

\* the test of what registerOSD returned in configureDirs
RegisterAborts(err) == ~err.isNil

\* the loop of configureDirs over dirs, a sequence of [path, id] in the order
\* of the iteration; envs[k] holds what registerOSD and the start sequence of
\* dirs[k] return.  acc is [osds, lastErr, procs, attempted, succeeded]
RECURSIVE configureDirsLoop(_, _, _, _)
configureDirsLoop(dirs, envs, prepareOnly, acc) ==
    IF dirs = <<>> THEN [acc EXCEPT !.err = acc.lastErr]
    ELSE LET dir == Head(dirs)
             env == Head(envs)
             unassigned == dir.id = unassignedOSDID
             id == IF unassigned THEN env.register.id ELSE dir.id
             osd == startOSD(acc.procs, osdConfig(id, dir.path, TRUE, NoSchemeEntry, ""),
                             env.start, prepareOnly)
             attempted == Append(acc.attempted, dir.path)
         IN  IF unassigned /\ RegisterAborts(env.register.err)
             THEN [acc EXCEPT !.err = env.register.err, !.attempted = attempted]
             ELSE IF ~osd.err.isNil
             THEN configureDirsLoop(Tail(dirs), Tail(envs), prepareOnly,
                                    [acc EXCEPT !.lastErr = osd.err,
                                                !.attempted = attempted])
             ELSE configureDirsLoop(Tail(dirs), Tail(envs), prepareOnly,
                                    [acc EXCEPT !.osds = Append(acc.osds, osd.osd),
                                                !.procs = osd.procs,
                                                !.attempted = attempted,
                                                !.succeeded = acc.succeeded + 1])

\* configureDirs: [osds, err, procs, attempted, succeeded]
configureDirs(procs, dirs, envs, prepareOnly) ==
    configureDirsLoop(dirs, envs, prepareOnly,
                      [osds |-> <<>>, err |-> NoError, lastErr |-> NoError, procs |-> procs,
                       attempted |-> <<>>, succeeded |-> 0])

(***************************************************************************)
(* The OSD agent: removeDirs and removeDevices.                            *)
(***************************************************************************)
\* the message of a removal that failed: Sprintf("failed to remove osd.%d. %+v")
RemoveFailedMsg(id, err) == <<"failed to remove osd.", ToString(id), ". ">> \o err.text

\* Sprintf("failed to remove osd.%d from scheme. %+v")
SchemeFailedMsg(id, err) ==
    <<"failed to remove osd.", ToString(id), " from scheme. ">> \o err.text

\* the return of removeDirs and removeDevices
CombinedError(errorMessages) ==
    IF Len(errorMessages) > 0 THEN Errorf(Join(errorMessages, "\n")) ELSE NoError

\* the loop of removeDirs over removedDirs, a sequence of [path, id] in the
\* order of the iteration; envs[k] holds what the calls of removeOSD for
\* removedDirs[k] return.  acc is [errorMessages, attempted]
RECURSIVE removeDirsLoop(_, _, _, _)
removeDirsLoop(procs, removedDirs, envs, acc) ==
    IF removedDirs = <<>> THEN acc
    ELSE LET dir == Head(removedDirs)
             r == removeOSD(procs, osdConfig(dir.id, dir.path, TRUE, NoSchemeEntry, ""),
                            Head(envs))
             attempted == Append(acc.attempted, dir.id)
         IN  removeDirsLoop(procs, Tail(removedDirs), Tail(envs),
                 IF ~r.err.isNil
                 THEN [errorMessages |-> Append(acc.errorMessages,
                                                RemoveFailedMsg(dir.id, r.err)),
                       attempted |-> attempted]
                 ELSE [acc EXCEPT !.attempted = attempted])

\* removeDirs: [err, errorMessages, attempted]
removeDirs(procs, removedDirs, envs) ==
    LET acc == removeDirsLoop(procs, removedDirs, envs,
                              [errorMessages |-> <<>>, attempted |-> <<>>])
    IN  [err |-> CombinedError(acc.errorMessages), errorMessages |-> acc.errorMessages,
         attempted |-> acc.attempted]

\* a *config.PerfSchemeEntry, as far as the agent reads it
SchemeEntry(id, storeType, partitions) ==
    [isNil |-> FALSE, ID |-> id, StoreType |-> storeType, Partitions |-> partitions]

\* config.RemoveFromScheme: the durable scheme, as the IDs of its entries,
\* without the entry; a call that returns an error has removed nothing
RemoveFromScheme(scheme, id, err) ==
    LET other(x) == x # id
    IN  IF err.isNil THEN SelectSeq(scheme, other) ELSE scheme

\* the continue after a failed removeOSD
SkipsScheme_Never(err) == FALSE

SkipsScheme(err) == ~err.isNil

\* the loop of removeDevices over the entries of removedDevicesScheme; envs[k]
\* holds what the calls of removeOSD and config.RemoveFromScheme return for
\* entry k.  acc is [errorMessages, attempted, unschemed, removeErrs, calls,
\* scheme]: calls is the calls made, in order, scheme the durable scheme
RECURSIVE removeDevicesLoop(_, _, _, _)
removeDevicesLoop(procs, entries, envs, acc) ==
    IF entries = <<>> THEN acc
    ELSE LET entry == Head(entries)
             env == Head(envs)
             r == removeOSD(procs, osdConfig(entry.ID, "/var/lib/rook", FALSE, entry, ""),
                            env.remove)
             tried == [acc EXCEPT !.attempted = Append(acc.attempted, entry.ID),
                                  !.removeErrs = Append(acc.removeErrs, r.err),
                                  !.calls = Append(acc.calls, <<"removeOSD", entry.ID>>)]
             called == [tried EXCEPT
                           !.calls = Append(tried.calls, <<"RemoveFromScheme", entry.ID>>),
                           !.scheme = RemoveFromScheme(tried.scheme, entry.ID, env.scheme)]
         IN  removeDevicesLoop(procs, Tail(entries), Tail(envs),
                 IF SkipsScheme(r.err)
                 THEN [tried EXCEPT !.errorMessages = Append(acc.errorMessages,
                                                             RemoveFailedMsg(entry.ID, r.err))]
                 ELSE IF ~env.scheme.isNil
                 THEN [called EXCEPT !.errorMessages = Append(acc.errorMessages,
                                                              SchemeFailedMsg(entry.ID,
                                                                              env.scheme))]
                 ELSE [called EXCEPT !.unschemed = Append(acc.unschemed, entry.ID)])

\* removeDevices, with the durable scheme it starts from:
\* [err, errorMessages, attempted, unschemed, removeErrs, calls, scheme]
removeDevices(procs, entries, envs, durable) ==
    LET acc == removeDevicesLoop(procs, entries, envs,
                                 [errorMessages |-> <<>>, attempted |-> <<>>,
                                  unschemed |-> <<>>, removeErrs |-> <<>>,
                                  calls |-> <<>>, scheme |-> durable])
    IN  [err |-> CombinedError(acc.errorMessages), errorMessages |-> acc.errorMessages,
         attempted |-> acc.attempted, unschemed |-> acc.unschemed,
         removeErrs |-> acc.removeErrs, calls |-> acc.calls, scheme |-> acc.scheme]

(***************************************************************************)
(* The OSD agent: getPartitionPerfScheme.  devices is the entries of the   *)
(* device to OSD mapping in the order the first loop visits them, second   *)
(* the order the second loop visits them.                                  *)
(***************************************************************************)
\* a *DeviceOsdIDEntry; Metadata is a slice, nil or not
NilSlice == [isNil |-> TRUE, ids |-> <<>>]
Slice(ids) == [isNil |-> FALSE, ids |-> ids]
DeviceOsdIDEntry(data, metadata) == [isNil |-> FALSE, Data |-> data, Metadata |-> metadata]

\* an entry of devices.Entries
DeviceEntry(name, mapping) == [name |-> name, mapping |-> mapping]

\* config.PerfSchemePartitionDetails, as far as the agent reads it
Partition(device, diskUUID) == [Device |-> device, DiskUUID |-> diskUUID]

\* config.MetadataDeviceInfo, and the nil one
MetadataDeviceInfo(device, diskUUID) ==
    [isNil |-> FALSE, Device |-> device, DiskUUID |-> diskUUID]
NoMetadataDevice == [isNil |-> TRUE, Device |-> "", DiskUUID |-> ""]

\* config.NewMetadataDeviceInfo
NewMetadataDeviceInfo(name) == MetadataDeviceInfo(name, "")

\* config.PerfScheme, and the nil one
PerfScheme(metadata, entries) == [isNil |-> FALSE, Metadata |-> metadata, Entries |-> entries]
NoPerfScheme == [isNil |-> TRUE, Metadata |-> NoMetadataDevice, Entries |-> <<>>]

\* nameToUUID, from the disks of context.Devices
nameToUUID(disks) ==
    {<<disks[k].Name, disks[k].UUID>> : k \in {j \in DOMAIN disks : disks[j].UUID # ""}}

\* findPartitionsForDevice: the <<entry, partition>> indexes of the partitions
\* on the disk of the name
findPartitionsForDevice(name, uuids, scheme) ==
    IF scheme.isNil \/ ~\E nu \in uuids : nu[1] = name THEN {}
    ELSE LET diskUUID == (CHOOSE nu \in uuids : nu[1] = name)[2]
         IN  {ep \in UNION {{<<e, q>> : q \in DOMAIN scheme.Entries[e].Partitions} :
                               e \in DOMAIN scheme.Entries} :
                 scheme.Entries[ep[1]].Partitions[ep[2]].DiskUUID = diskUUID}

isDeviceInUse_Never(name, uuids, scheme) == FALSE

isDeviceInUse(name, uuids, scheme) ==
    Cardinality(findPartitionsForDevice(name, uuids, scheme)) > 0

isDeviceDesiredForData(mapping) ==
    IF mapping.isNil THEN FALSE
    ELSE \/ mapping.Data = unassignedOSDID /\ mapping.Metadata.isNil
         \/ mapping.Data > unassignedOSDID /\ Len(mapping.Metadata.ids) = 1

isDeviceDesiredForMetadata(mapping, scheme) ==
    mapping.Data = unassignedOSDID /\ ~mapping.Metadata.isNil
        /\ Len(mapping.Metadata.ids) = 0

\* refreshDeviceInfo
refreshDeviceInfo(name, uuids, scheme) ==
    LET parts == findPartitionsForDevice(name, uuids, scheme)
        diskUUID == (CHOOSE nu \in uuids : nu[1] = name)[2]
        entries == [e \in DOMAIN scheme.Entries |->
                      [scheme.Entries[e] EXCEPT !.Partitions =
                          [q \in DOMAIN scheme.Entries[e].Partitions |->
                              IF <<e, q>> \in parts
                              THEN [scheme.Entries[e].Partitions[q] EXCEPT !.Device = name]
                              ELSE scheme.Entries[e].Partitions[q]]]]
    IN  IF parts = {} THEN scheme
        ELSE [scheme EXCEPT
                 !.Entries = entries,
                 !.Metadata = IF ~scheme.Metadata.isNil /\ scheme.Metadata.DiskUUID = diskUUID
                              THEN [scheme.Metadata EXCEPT !.Device = name]
                              ELSE scheme.Metadata]

\* the test of the scheme for a device that is desired for metadata
MetadataAlreadySet_Never(scheme) == FALSE

MetadataAlreadySet(scheme) == ~scheme.Metadata.isNil

\* the first loop of getPartitionPerfScheme.  acc is [scheme, numDataNeeded,
\* metadataEntry, err], metadataEntry the name of the device whose mapping the
\* pointer holds, "" for nil
RECURSIVE schemeFirstLoop(_, _, _)
schemeFirstLoop(devices, uuids, acc) ==
    IF devices = <<>> THEN acc
    ELSE LET name == Head(devices).name
             mapping == Head(devices).mapping
         IN  IF isDeviceInUse(name, uuids, acc.scheme)
             THEN schemeFirstLoop(Tail(devices), uuids,
                      [acc EXCEPT !.scheme = refreshDeviceInfo(name, uuids, acc.scheme)])
             ELSE IF isDeviceDesiredForData(mapping)
             THEN schemeFirstLoop(Tail(devices), uuids,
                      [acc EXCEPT !.numDataNeeded = acc.numDataNeeded + 1])
             ELSE IF isDeviceDesiredForMetadata(mapping, acc.scheme)
             THEN IF MetadataAlreadySet(acc.scheme)
                  THEN [acc EXCEPT !.err =
                           Error(<<name, " is desired for metadata, but ",
                                   acc.scheme.Metadata.Device, " (",
                                   acc.scheme.Metadata.DiskUUID,
                                   ") is already the metadata device">>)]
                  ELSE schemeFirstLoop(Tail(devices), uuids,
                           [acc EXCEPT !.metadataEntry = name,
                                       !.scheme.Metadata = NewMetadataDeviceInfo(name)])
             ELSE schemeFirstLoop(Tail(devices), uuids, acc)

\* config.PopulateDistributedPerfSchemeEntry and
\* config.PopulateCollocatedPerfSchemeEntry: the partitions of the entry
PopulateDistributedPerfSchemeEntry(entry, name, metadata) ==
    [entry EXCEPT !.Partitions = <<Partition(name, ""), Partition(metadata.Device, "")>>]

PopulateCollocatedPerfSchemeEntry(entry, name) ==
    [entry EXCEPT !.Partitions = <<Partition(name, "")>>]

\* the second loop of getPartitionPerfScheme.  regs holds what the calls of
\* registerOSD, and of the Populate function after each, return, in order; acc is [scheme, mappings, registered, err],
\* mappings the DeviceOsdIDEntry of each name
RECURSIVE schemeSecondLoop(_, _, _, _, _, _)
schemeSecondLoop(second, uuids, metadataEntry, storeType, regs, acc) ==
    IF second = <<>> THEN acc
    ELSE LET name == Head(second)
             mapping == acc.mappings[name]
             reg == Head(regs)
             entry == SchemeEntry(reg.id, storeType, <<>>)
             distributed == metadataEntry # "" /\ ~acc.scheme.Metadata.isNil
             added == IF distributed
                      THEN PopulateDistributedPerfSchemeEntry(entry, name,
                                                              acc.scheme.Metadata)
                      ELSE PopulateCollocatedPerfSchemeEntry(entry, name)
             withData == [acc.mappings EXCEPT
                             ![name] = DeviceOsdIDEntry(reg.id,
                                           IF distributed THEN mapping.Metadata
                                           ELSE Slice(<<reg.id>>))]
             mappings == IF distributed
                         THEN [withData EXCEPT ![metadataEntry].Metadata =
                                  Slice(Append(withData[metadataEntry].Metadata.ids,
                                               reg.id))]
                         ELSE withData
         IN  IF ~isDeviceDesiredForData(mapping) \/ isDeviceInUse(name, uuids, acc.scheme)
             THEN schemeSecondLoop(Tail(second), uuids, metadataEntry, storeType, regs, acc)
             ELSE IF ~reg.err.isNil
             THEN [acc EXCEPT !.err =
                      Error(<<"failed to register OSD for device ", name, ": ">>
                            \o reg.err.text),
                      !.calls = acc.calls + 1]
             ELSE IF ~reg.populate.isNil
             THEN [acc EXCEPT !.err =
                      Error(<<"failed to create ",
                              IF distributed THEN "distributed" ELSE "collocated",
                              " perf scheme entry for ", name, ": ">>
                            \o reg.populate.text),
                      !.mappings = mappings,
                      !.registered = Append(acc.registered, reg.id),
                      !.calls = acc.calls + 1]
             ELSE schemeSecondLoop(Tail(second), uuids, metadataEntry, storeType,
                                   Tail(regs),
                                   [acc EXCEPT !.scheme.Entries =
                                                   Append(acc.scheme.Entries, added),
                                               !.mappings = mappings,
                                               !.registered = Append(acc.registered, reg.id),
                                               !.calls = acc.calls + 1])

\* getPartitionPerfScheme: [scheme, err, mappings, registered, calls], calls
\* the number of calls of registerOSD.  loaded is what config.LoadScheme returns
getPartitionPerfScheme(loaded, disks, devices, second, storeType, regs) ==
    LET uuids == nameToUUID(disks)
        mappings0 == [n \in {devices[k].name : k \in DOMAIN devices} |->
                        (CHOOSE d \in {devices[k] : k \in DOMAIN devices} :
                            d.name = n).mapping]
        failed(err) == [scheme |-> NoPerfScheme, err |-> err, mappings |-> mappings0,
                        registered |-> <<>>, calls |-> 0]
        first == schemeFirstLoop(devices, uuids,
                                 [scheme |-> loaded.scheme, numDataNeeded |-> 0,
                                  metadataEntry |-> "", err |-> NoError])
        done == schemeSecondLoop(second, uuids, first.metadataEntry, storeType, regs,
                                 [scheme |-> first.scheme, mappings |-> mappings0,
                                  registered |-> <<>>, calls |-> 0, err |-> NoError])
    IN  IF ~loaded.err.isNil
        THEN failed(Error(<<"failed to load partition scheme: ">> \o loaded.err.text))
        ELSE IF ~first.err.isNil THEN failed(first.err)
        ELSE IF first.numDataNeeded > 0
        THEN IF ~done.err.isNil
             THEN [failed(done.err) EXCEPT !.mappings = done.mappings,
                                           !.registered = done.registered,
                                           !.calls = done.calls]
             ELSE done
        ELSE [scheme |-> first.scheme, err |-> NoError, mappings |-> mappings0,
              registered |-> <<>>, calls |-> 0]

\* what waitForRebalance returns
RebalanceOutcomes == {NoError, Error(<<"max retries exceeded">>)}

\* the number of calls of env that fail
Failures(env) ==
    Cardinality({f \in DOMAIN env : ~env[f].isNil})

\* what the calls of removeOSD return: at most MaxFailures of them fail
RemoveEnvs ==
    {env \in {RemoveEnv(u, w, m, r, s, p, f, d) :
                 u \in ExecOutcomes, w \in ExecOutcomes, m \in ExecOutcomes,
                 r \in RebalanceOutcomes, s \in ExecOutcomes, p \in ExecOutcomes,
                 f \in ExecOutcomes, d \in ExecOutcomes} :
        Failures(env) <= MaxFailures}

\* the IDs of the OSDs of the node
OSDIDs == {osdID, otherOSD}

NoCall == [op |-> "none"]

AgentParked == osdProc = {} /\ agentLast = NoCall

AgentInit == AgentParked

DoRemoveOSD ==
    /\ \E id \in OSDIDs, env \in RemoveEnvs :
          \E r \in {removeOSD(osdProc, osdConfig(id, "/var/lib/rook", TRUE, NoSchemeEntry, ""), env)} :
             agentLast' = [op |-> "removeOSD", id |-> id, procs |-> osdProc, env |-> env,
                           err |-> r.err, log |-> r.log]
    /\ UNCHANGED <<osdProc, notAgent>>

\* the directories of the node, and the ID the cluster gives the OSD of each
DirPaths == {"/d1", "/d2"}
DirOSD(path) == IF path = "/d1" THEN osdID ELSE otherOSD

\* a directory of the dirs map: its path and the ID of its OSD
Dir(path, id) == [path |-> path, id |-> id]

\* two directories of the node
DirPairs == {pq \in DirPaths \X DirPaths : pq[1] # pq[2]}

\* the dirs maps, each in an order its iteration can take
DirMaps ==
    {<<>>}
    \cup {<<Dir(p, i)>> : p \in DirPaths, i \in {unassignedOSDID, osdID}}
    \cup {<<Dir(pq[1], i), Dir(pq[2], unassignedOSDID)>> :
             pq \in DirPairs, i \in {unassignedOSDID, osdID}}
    \cup {<<Dir(pq[2], unassignedOSDID), Dir(pq[1], i)>> :
             pq \in DirPairs, i \in {unassignedOSDID, osdID}}

\* a start sequence of a new OSD where every call succeeds
StartNew ==
    StartEnv(NoError, TRUE, NoError, NoError, {}, NoError, NoError, NoError, NoError,
             unassignedOSDID, NoError, FALSE)

\* a start sequence of the OSD id that is set up already
StartExisting(id) == [StartNew EXCEPT !.newOSD = FALSE, !.whoami = id]

\* what registerOSD and the start sequence of a directory return
DirEnv(register, start) == [register |-> register, start |-> start]

\* for a directory that is not the first of its map
LaterDirEnvs(path) ==
    {DirEnv(Registered(DirOSD(path)), StartNew),
     DirEnv(RegisterFailed, StartNew),
     DirEnv(Registered(DirOSD(path)), [StartNew EXCEPT !.initialize = ExecFailed])}

DirEnvs(path) ==
    LaterDirEnvs(path)
    \cup {DirEnv(Registered(DirOSD(path)), StartExisting(DirOSD(path))),
          DirEnv(Registered(DirOSD(path)),
                 [StartExisting(DirOSD(path)) EXCEPT !.loadInfo = ExecFailed]),
          DirEnv(Registered(DirOSD(path)),
                 [StartExisting(DirOSD(path)) EXCEPT !.run = ExecFailed])}

\* the calls of configureDirs: an agent that only prepares is called with one
\* directory
ConfigureDirsInputs ==
    {i \in [dirs : DirMaps, prepareOnly : BOOLEAN] : i.prepareOnly => Len(i.dirs) = 1}

DoConfigureDirs ==
    /\ \E i \in ConfigureDirsInputs :
          \E envs \in {e \in [1..Len(i.dirs) -> UNION {DirEnvs(p) : p \in DirPaths}] :
                          \A k \in 1..Len(i.dirs) :
                             e[k] \in IF k = 1 THEN DirEnvs(i.dirs[k].path)
                                      ELSE LaterDirEnvs(i.dirs[k].path)} :
             \E r \in {configureDirs(osdProc, i.dirs, envs, i.prepareOnly)} :
                /\ agentLast' = [op |-> "configureDirs", dirs |-> i.dirs, envs |-> envs,
                                 prepareOnly |-> i.prepareOnly, procs |-> osdProc,
                                 osds |-> r.osds, err |-> r.err, attempted |-> r.attempted,
                                 succeeded |-> r.succeeded]
                /\ osdProc' = r.procs
    /\ UNCHANGED notAgent

\* the store types a configuration can name
StoreTypes == {"", Filestore, Bluestore}

\* the configurations startOSD is called with: the OSD of a directory, and the
\* OSD of a device with its entry of the scheme
DirConfig(storeType) == osdConfig(osdID, "/d1", TRUE, NoSchemeEntry, storeType)
DeviceConfig(storeType) ==
    osdConfig(otherOSD, "/var/lib/rook", FALSE,
              SchemeEntry(otherOSD, storeType, <<Partition("sdx", "ux")>>), "")
StartConfigs ==
    {DirConfig(t) : t \in StoreTypes} \cup {DeviceConfig(t) : t \in StoreTypes}

\* the marker files of an OSD that is set up, and ones that cannot be read or
\* do not hold what they should
WhoamiFile(id) == MarkerFile(NoError, <<ToString(id), "\n">>)
FsidFile == MarkerFile(NoError, <<"6ba7b810-9dad-11d1-80b4-00c04fd430c8", "\n">>)
UnreadableMarker == MarkerFile(Error(<<"permission denied">>), <<>>)
BadWhoamiFiles == {UnreadableMarker, MarkerFile(NoError, <<>>), MarkerFile(NoError, <<"o", "s", "d", "\n">>)}
BadFsidFiles == {UnreadableMarker, MarkerFile(NoError, <<"\n">>), MarkerFile(NoError, <<"1", "\n">>)}

\* a start sequence of an OSD whose ready marker exists, with its marker files
ReadyEnv(id, whoami, fsid) ==
    [StartExisting(id) EXCEPT !.loadInfo = loadOSDInfo(whoami, fsid).err,
                              !.whoami = loadOSDInfo(whoami, fsid).id]

ReadyEnvs(id) ==
    {ReadyEnv(id, w, FsidFile) : w \in BadWhoamiFiles \cup {WhoamiFile(id)}}
    \cup {ReadyEnv(id, WhoamiFile(id), f) : f \in BadFsidFiles}

\* what the calls of the start sequence of the OSD id return
StartEnvs(id) ==
    ReadyEnvs(id) \cup
    {StartNew,
     StartExisting(id),
     [StartNew EXCEPT !.remount = ExecFailed],
     [StartNew EXCEPT !.mkdir = ExecFailed],
     [StartNew EXCEPT !.loadScheme = ExecFailed],
     [StartNew EXCEPT !.format = ExecFailed],
     [StartNew EXCEPT !.savedIDs = {id}, !.format = ExecFailed],
     [StartNew EXCEPT !.forceFormat = TRUE],
     [StartNew EXCEPT !.savedIDs = {id}, !.forceFormat = TRUE],
     [StartExisting(id) EXCEPT !.forceFormat = TRUE],
     [StartNew EXCEPT !.initialize = ExecFailed],
     [StartNew EXCEPT !.run = ExecFailed],
     [StartExisting(id) EXCEPT !.writeConfig = ExecFailed],
     [StartExisting(id) EXCEPT !.writeConfig = ExecFailed, !.run = ExecFailed],
     [StartExisting(id) EXCEPT !.loadInfo = ExecFailed],
     [StartExisting(id) EXCEPT !.running = TRUE]}

\* the calls of startOSD: a store type other than the default comes with a
\* start sequence where every call succeeds
StartInputs ==
    {i \in [cfg : StartConfigs, env : UNION {StartEnvs(id) : id \in OSDIDs},
            prepareOnly : BOOLEAN] :
        /\ i.env \in StartEnvs(i.cfg.id)
        /\ (i.cfg.storeConfig.StoreType # "" \/ (~i.cfg.dir /\ i.cfg.partitionScheme.StoreType # ""))
              => i.env \in {StartNew, StartExisting(i.cfg.id)}}

DoStartOSD ==
    /\ \E i \in StartInputs :
          \E r \in {startOSD(osdProc, i.cfg, i.env, i.prepareOnly)} :
             /\ agentLast' = [op |-> "startOSD", cfg |-> i.cfg, env |-> i.env,
                              prepareOnly |-> i.prepareOnly, procs |-> osdProc,
                              osd |-> r.osd, err |-> r.err, log |-> r.log]
             /\ osdProc' = r.procs
    /\ UNCHANGED notAgent

\* a removal where every call succeeds
RemoveOK ==
    RemoveEnv(NoError, NoError, NoError, NoError, NoError, NoError, NoError, NoError)

\* the error of a command whose output has a percent sign in it
ExecFailedPercent == Error(<<"exit status 1: 50", "% d", "one">>)

\* what the calls of one removal of removeDirs and removeDevices return
ItemRemoveEnvs ==
    {RemoveOK,
     [RemoveOK EXCEPT !.reweight = ExecFailed],
     [RemoveOK EXCEPT !.reweight = ExecFailedPercent],
     [RemoveOK EXCEPT !.purge = ExecFailed]}

\* the removedDirs maps, each in an order its iteration can take
RemovedDirMaps ==
    {<<>>}
    \cup {<<Dir(p, DirOSD(p))>> : p \in DirPaths}
    \cup {<<Dir(pq[1], DirOSD(pq[1])), Dir(pq[2], DirOSD(pq[2]))>> : pq \in DirPairs}

DoRemoveDirs ==
    /\ \E removedDirs \in RemovedDirMaps :
          \E envs \in [1..Len(removedDirs) -> ItemRemoveEnvs] :
             \E r \in {removeDirs(osdProc, removedDirs, envs)} :
                agentLast' = [op |-> "removeDirs",
                              ids |-> [k \in 1..Len(removedDirs) |-> removedDirs[k].id],
                              envs |-> [k \in 1..Len(removedDirs) |->
                                          [remove |-> envs[k], scheme |-> NoError]],
                              procs |-> osdProc, err |-> r.err,
                              errorMessages |-> r.errorMessages,
                              attempted |-> r.attempted]
    /\ UNCHANGED <<osdProc, notAgent>>

\* what the removal and config.RemoveFromScheme return for one entry
EntryEnv(remove, scheme) == [remove |-> remove, scheme |-> scheme]

EntryEnvs ==
    {EntryEnv(remove, NoError) : remove \in ItemRemoveEnvs}
    \cup {EntryEnv(RemoveOK, ExecFailed)}

\* the entries of a removedDevicesScheme
RemovedEntries ==
    {<<>>}
    \cup {<<SchemeEntry(id, "bluestore", <<>>)>> : id \in OSDIDs}
    \cup {<<SchemeEntry(pq[1], "bluestore", <<>>), SchemeEntry(pq[2], "bluestore", <<>>)>> :
             pq \in {x \in OSDIDs \X OSDIDs : x[1] # x[2]}}

\* the durable scheme of the node before a call of removeDevices
DurableScheme == <<osdID, otherOSD>>

DoRemoveDevices ==
    /\ \E entries \in RemovedEntries :
          \E envs \in [1..Len(entries) -> EntryEnvs] :
             \E r \in {removeDevices(osdProc, entries, envs, DurableScheme)} :
                agentLast' = [op |-> "removeDevices",
                              ids |-> [k \in 1..Len(entries) |-> entries[k].ID],
                              envs |-> envs, procs |-> osdProc, err |-> r.err,
                              errorMessages |-> r.errorMessages,
                              attempted |-> r.attempted, removeErrs |-> r.removeErrs,
                              calls |-> r.calls, scheme |-> r.scheme]
    /\ UNCHANGED <<osdProc, notAgent>>

(***************************************************************************)
(* The OSD agent: configureDevices.  in holds the mapping and what         *)
(* getPartitionPerfScheme meets, metaErr what partitionMetadata returns,   *)
(* envs[k] what the start sequence of the k-th entry of the scheme meets.  *)
(***************************************************************************)
DeviceCall(call, id, device) == [call |-> call, id |-> id, device |-> device]

\* the test of the computed scheme for a dedicated metadata device
HasMetadataDevice_Never(scheme) == FALSE

HasMetadataDevice(scheme) == ~scheme.Metadata.isNil

\* the loop over scheme.Entries; acc is [osds, err, procs, calls, startErrs]
RECURSIVE configureDevicesLoop(_, _, _, _)
configureDevicesLoop(entries, envs, prepareOnly, acc) ==
    IF entries = <<>> THEN acc
    ELSE LET entry == Head(entries)
             r == startOSD(acc.procs,
                           osdConfig(entry.ID, "/var/lib/rook", FALSE, entry, ""),
                           Head(envs), prepareOnly)
             called == [acc EXCEPT
                           !.calls = Append(acc.calls, DeviceCall("startOSD", entry.ID, "")),
                           !.startErrs = Append(acc.startErrs, r.err),
                           !.procs = r.procs]
         IN  IF ~r.err.isNil
             THEN [called EXCEPT
                      !.err = Error(<<"failed to config osd ", ToString(entry.ID), ". ">>
                                    \o r.err.text)]
             ELSE configureDevicesLoop(Tail(entries), Tail(envs), prepareOnly,
                      [called EXCEPT !.osds = Append(acc.osds, r.osd)])

\* configureDevices: [osds, err, procs, calls, startErrs, scheme, schemeErr]
configureDevices(procs, in, metaErr, envs, prepareOnly) ==
    LET second == [k \in DOMAIN in.devices |-> in.devices[k].name]
        s == getPartitionPerfScheme(in.loaded, in.disks, in.devices, second, "bluestore",
                                    in.regs)
        none == [osds |-> <<>>, err |-> NoError, procs |-> procs, calls |-> <<>>,
                 startErrs |-> <<>>, scheme |-> NoPerfScheme, schemeErr |-> NoError]
        computed == [none EXCEPT !.calls = <<DeviceCall("getPartitionPerfScheme", -1, "")>>,
                                 !.scheme = s.scheme, !.schemeErr = s.err]
        partitioned ==
            [computed EXCEPT
                !.calls = Append(@, DeviceCall("partitionMetadata", -1,
                                               s.scheme.Metadata.Device))]
    IN  IF Len(in.devices) = 0 THEN none
        ELSE IF ~s.err.isNil
        THEN [computed EXCEPT
                 !.err = Error(<<"failed to get OSD partition scheme: ">> \o s.err.text)]
        ELSE IF HasMetadataDevice(s.scheme) /\ ~metaErr.isNil
        THEN [partitioned EXCEPT
                 !.err = Error(<<"failed to partition metadata &{Device:",
                                 s.scheme.Metadata.Device, " DiskUUID:",
                                 s.scheme.Metadata.DiskUUID, "}: ">> \o metaErr.text)]
        ELSE configureDevicesLoop(s.scheme.Entries, envs, prepareOnly,
                 IF HasMetadataDevice(s.scheme) THEN partitioned ELSE computed)

\* the disks of context.Devices: both with a UUID, or the second with none
Disk(name, uuid) == [Name |-> name, UUID |-> uuid]
DiskLists ==
    {<<Disk("sdx", "ux"), Disk("sdy", "uy")>>, <<Disk("sdx", "ux"), Disk("sdy", "")>>}

\* the mappings of a desired device: a fresh data device, a fresh dedicated
\* metadata device, a data device that has its OSD already
FreshData == DeviceOsdIDEntry(unassignedOSDID, NilSlice)
FreshMetadata == DeviceOsdIDEntry(unassignedOSDID, Slice(<<>>))
Mappings == {FreshData, FreshMetadata, DeviceOsdIDEntry(osdID, Slice(<<osdID>>))}

\* the entries of the device to OSD mapping, in an order of iteration
DeviceMaps ==
    {<<DeviceEntry(n, m)>> : n \in {"sdx", "sdy"}, m \in Mappings}
    \cup {<<DeviceEntry("sdx", m), DeviceEntry("sdy", o)>> : m \in Mappings, o \in Mappings}
    \cup {<<DeviceEntry("sdy", o), DeviceEntry("sdx", m)>> : m \in Mappings, o \in Mappings}

\* what config.LoadScheme returns: an empty scheme, schemes with a metadata
\* device or with partitions on the disk ux, or an error
Loaded(scheme, err) == [scheme |-> scheme, err |-> err]
InUseEntry == SchemeEntry(osdID, "bluestore", <<Partition("sdw", "ux")>>)
LoadedSchemes ==
    {Loaded(PerfScheme(NoMetadataDevice, <<>>), NoError),
     Loaded(PerfScheme(MetadataDeviceInfo("sdz", "uz"), <<>>), NoError),
     Loaded(PerfScheme(NoMetadataDevice, <<InUseEntry>>), NoError),
     Loaded(PerfScheme(MetadataDeviceInfo("sdz", "uz"), <<InUseEntry>>), NoError),
     Loaded(PerfScheme(MetadataDeviceInfo("sdw", "ux"), <<InUseEntry>>), NoError),
     Loaded(NoPerfScheme, ExecFailed)}

\* what registerOSD and the Populate function after it return, call by call
Reg(err, id, populate) == [err |-> err, id |-> id, populate |-> populate]
RegsOK == <<Reg(NoError, 2, NoError), Reg(NoError, 3, NoError)>>
RegLists ==
    {RegsOK,
     <<Reg(ExecFailed, unassignedOSDID, NoError), Reg(NoError, 3, NoError)>>,
     <<Reg(NoError, 2, NoError), Reg(NoError, 3, ExecFailed)>>}

Reverse(seq) == [k \in DOMAIN seq |-> seq[Len(seq) + 1 - k]]

\* the calls of getPartitionPerfScheme; reversed: the second loop visits the
\* entries in the other order
SchemeInputs ==
    {i \in [devices : DeviceMaps, reversed : BOOLEAN, loaded : LoadedSchemes,
            disks : DiskLists, regs : RegLists] :
        /\ i.reversed => Len(i.devices) = 2
        /\ ~i.loaded.err.isNil => Len(i.devices) = 1
        /\ i.regs # RegsOK => i.loaded = Loaded(PerfScheme(NoMetadataDevice, <<>>), NoError)
        /\ i.disks[2].UUID = "" =>
              /\ i.regs = RegsOK
              /\ ~i.reversed
              /\ i.loaded = Loaded(PerfScheme(NoMetadataDevice, <<InUseEntry>>), NoError)}

\* registerOSD gives the IDs of the two OSDs
RegsDevices == <<Reg(NoError, osdID, NoError), Reg(NoError, otherOSD, NoError)>>

\* what the start sequence of an entry meets: nothing, a failed format, or a
\* failed run
DeviceStartEnvs ==
    {StartNew, [StartNew EXCEPT !.format = ExecFailed], [StartNew EXCEPT !.run = ExecFailed]}

\* the mappings configureDevices is called with, and what the scheme
\* computation meets: no device; two data devices; a data device and a
\* dedicated metadata device; two data devices with the metadata device of the
\* stored scheme; a scheme that cannot be loaded; two metadata devices
DeviceIn(devices, loaded) ==
    [devices |-> devices, loaded |-> loaded, disks |-> <<Disk("sdx", "ux"), Disk("sdy", "uy")>>,
     regs |-> RegsDevices]

EmptyScheme == Loaded(PerfScheme(NoMetadataDevice, <<>>), NoError)

DevicesIn ==
    {DeviceIn(<<>>, EmptyScheme),
     DeviceIn(<<DeviceEntry("sdx", FreshData), DeviceEntry("sdy", FreshData)>>, EmptyScheme),
     DeviceIn(<<DeviceEntry("sdx", FreshData), DeviceEntry("sdy", FreshMetadata)>>, EmptyScheme),
     DeviceIn(<<DeviceEntry("sdx", FreshData), DeviceEntry("sdy", FreshData)>>,
              Loaded(PerfScheme(MetadataDeviceInfo("sdz", "uz"), <<>>), NoError)),
     DeviceIn(<<DeviceEntry("sdx", FreshData)>>, Loaded(NoPerfScheme, ExecFailed)),
     DeviceIn(<<DeviceEntry("sdx", FreshMetadata), DeviceEntry("sdy", FreshMetadata)>>,
              EmptyScheme)}

\* a failure of partitionMetadata and the prepare-only flag come with start
\* sequences where every call succeeds
ConfigureDevicesInputs ==
    {i \in [in : DevicesIn, metaErr : ExecOutcomes, envs : DeviceStartEnvs \X DeviceStartEnvs,
            prepareOnly : BOOLEAN] :
        (~i.metaErr.isNil \/ i.prepareOnly \/ Len(i.in.devices) < 2 \/ i.in.devices[1].mapping = FreshMetadata)
            => /\ i.envs = <<StartNew, StartNew>>
               /\ ~(i.prepareOnly /\ ~i.metaErr.isNil)}

DoConfigureDevices ==
    /\ \E i \in ConfigureDevicesInputs :
          \E r \in {configureDevices(osdProc, i.in, i.metaErr, i.envs, i.prepareOnly)} :
             /\ agentLast' = [op |-> "configureDevices", in |-> i.in, metaErr |-> i.metaErr,
                              envs |-> i.envs, prepareOnly |-> i.prepareOnly,
                              procs |-> osdProc, osds |-> r.osds, err |-> r.err,
                              calls |-> r.calls, startErrs |-> r.startErrs,
                              scheme |-> r.scheme, schemeErr |-> r.schemeErr]
             /\ osdProc' = r.procs
    /\ UNCHANGED notAgent

DoGetPartitionPerfScheme ==
    /\ \E i \in SchemeInputs :
          \E second \in {[k \in DOMAIN i.devices |->
                            (IF i.reversed THEN Reverse(i.devices) ELSE i.devices)[k].name]} :
             \E r \in {getPartitionPerfScheme(i.loaded, i.disks, i.devices, second,
                                               "bluestore", i.regs)} :
                agentLast' = [op |-> "getPartitionPerfScheme", devices |-> i.devices,
                              second |-> second, loaded |-> i.loaded, disks |-> i.disks,
                              regs |-> i.regs, scheme |-> r.scheme, err |-> r.err,
                              mappings |-> r.mappings, registered |-> r.registered,
                              calls |-> r.calls, rerun |-> FALSE]
    /\ UNCHANGED <<osdProc, notAgent>>

\* the scheme as the pass that follows a successful computation leaves it in
\* the store: the partitions are made and each is recorded with the UUID of
\* its disk
CommitScheme(scheme, disks) ==
    LET uuid(device, old) ==
            IF \E d \in DOMAIN disks : disks[d].Name = device /\ disks[d].UUID # ""
            THEN disks[CHOOSE d \in DOMAIN disks : disks[d].Name = device].UUID
            ELSE old
    IN  [scheme EXCEPT
            !.Entries = [e \in DOMAIN scheme.Entries |->
                           [scheme.Entries[e] EXCEPT !.Partitions =
                               [q \in DOMAIN scheme.Entries[e].Partitions |->
                                   [scheme.Entries[e].Partitions[q] EXCEPT !.DiskUUID =
                                       uuid(scheme.Entries[e].Partitions[q].Device,
                                            scheme.Entries[e].Partitions[q].DiskUUID)]]]],
            !.Metadata = IF scheme.Metadata.isNil THEN scheme.Metadata
                         ELSE [scheme.Metadata EXCEPT !.DiskUUID =
                                  uuid(scheme.Metadata.Device, scheme.Metadata.DiskUUID)]]

\* the next pass: getPartitionPerfScheme is called again with the mapping the
\* last call left and loads the scheme the last pass stored
DoRerunPartitionPerfScheme ==
    /\ agentLast.op = "getPartitionPerfScheme"
    /\ ~agentLast.rerun
    /\ agentLast.err.isNil
    /\ \E devices \in {[k \in DOMAIN agentLast.devices |->
                           DeviceEntry(agentLast.devices[k].name,
                                       agentLast.mappings[agentLast.devices[k].name])]},
          loaded \in {Loaded(CommitScheme(agentLast.scheme, agentLast.disks), NoError)} :
          \E r \in {getPartitionPerfScheme(loaded, agentLast.disks, devices,
                                            agentLast.second, "bluestore", RegsOK)} :
             agentLast' = [op |-> "getPartitionPerfScheme", devices |-> devices,
                           second |-> agentLast.second, loaded |-> loaded,
                           disks |-> agentLast.disks, regs |-> RegsOK,
                           scheme |-> r.scheme, err |-> r.err, mappings |-> r.mappings,
                           registered |-> r.registered, calls |-> r.calls,
                           rerun |-> TRUE]
    /\ UNCHANGED <<osdProc, notAgent>>

(***************************************************************************)
(* Deploying the discovery fleet: Discover.Start.                          *)
(***************************************************************************)
discoverDaemonsetName == "rook-discover"

\* the rules of the rook-discover role
accessRules ==
    <<[APIGroups |-> <<"">>, Resources |-> <<"configmaps">>,
       Verbs |-> <<"get", "list", "update", "create", "delete">>]>>

\* what the API server can refuse during a call of Start
StartFaults == {"none", "role", "create"}

\* k8sutil.MakeRole: ensures that the role exists in the ns; it fails
\* only when the API server refuses
MakeRole(have, ns, name, rules, fault) ==
    IF fault = "role" THEN [roles |-> have, err |-> "role refused"]
    ELSE [roles |-> have \cup {[Namespace |-> ns, Name |-> name, Rules |-> rules]},
          err |-> nil]

VolumeMount(name, path) == [Name |-> name, MountPath |-> path, ReadOnly |-> TRUE]

Volume(name, path) == [Name |-> name, HostPath |-> path]

\* the toleration the environment asks for, if any
Tolerations(tolerationValue, tolerationKey) ==
    IF tolerationValue # ""
    THEN <<[Effect |-> tolerationValue, Operator |-> "Exists", Key |-> tolerationKey]>>
    ELSE <<>>

\* the DaemonSet createDiscoverDaemonSet builds
DaemonSet(discoverImage, tolerationValue, tolerationKey) ==
    [Name |-> discoverDaemonsetName,
     Namespace |-> "",
     UpdateStrategy |-> "RollingUpdate",
     Labels |-> [app |-> discoverDaemonsetName],
     ServiceAccountName |-> discoverDaemonsetName,
     Container |-> [Name |-> discoverDaemonsetName,
                    Image |-> discoverImage,
                    Args |-> <<"discover">>,
                    Privileged |-> FALSE,
                    VolumeMounts |-> <<VolumeMount("dev", "/dev"), VolumeMount("sys", "/sys"),
                                       VolumeMount("udev", "/run/udev")>>,
                    Env |-> <<"POD_NAMESPACE", "NODE_NAME">>],
     Volumes |-> <<Volume("dev", "/dev"), Volume("sys", "/sys"), Volume("udev", "/run/udev")>>,
     Tolerations |-> Tolerations(tolerationValue, tolerationKey),
     HostNetwork |-> FALSE]

\* the DaemonSets of a ns
DaemonSetsOf(sets, ns) == {d \in sets : d.Namespace = ns}

\* DaemonSets(namespace).Create: a name that is taken is refused with
\* AlreadyExists and the stored object stays as it is
CreateDaemonSet(sets, ns, ds, fault) ==
    IF fault = "create" THEN [sets |-> sets, err |-> "server refused"]
    ELSE IF \E d \in DaemonSetsOf(sets, ns) : d.Name = ds.Name
    THEN [sets |-> sets, err |-> "AlreadyExists"]
    ELSE [sets |-> sets \cup {[ds EXCEPT !.Namespace = ns]}, err |-> nil]

IsAlreadyExists_Never(err) == FALSE

IsAlreadyExists(err) == err = "AlreadyExists"

createDiscoverDaemonSet(sets, ns, discoverImage, tolerationValue, tolerationKey, fault) ==
    LET ds == DaemonSet(discoverImage, tolerationValue, tolerationKey)
        c == CreateDaemonSet(sets, ns, ds, fault)
    IN  IF c.err # nil /\ ~IsAlreadyExists(c.err)
        THEN [sets |-> c.sets, err |-> "failed to create rook-discover daemon set",
              log |-> <<>>]
        ELSE IF c.err # nil
        THEN [sets |-> c.sets, err |-> nil, log |-> <<"rook-discover daemonset already exists">>]
        ELSE [sets |-> c.sets, err |-> nil, log |-> <<"rook-discover daemonset started">>]

Start(sets, have, ns, discoverImage, tolerationValue, tolerationKey, fault) ==
    LET m == MakeRole(have, ns, discoverDaemonsetName, accessRules, fault)
        c == createDiscoverDaemonSet(sets, ns, discoverImage, tolerationValue,
                                     tolerationKey, fault)
    IN  IF m.err # nil
        THEN [sets |-> sets, roles |-> m.roles, log |-> <<>>,
              err |-> "failed to init RBAC for rook-discover"]
        ELSE IF c.err # nil
        THEN [sets |-> c.sets, roles |-> m.roles, log |-> c.log,
              err |-> "Error starting discover daemonset"]
        ELSE [sets |-> c.sets, roles |-> m.roles, log |-> c.log, err |-> nil]

\* the namespaces, images and toleration settings Start is called with
DeployNamespaces == {"ns", "rook-system"}
DiscoverImages == {"rook/rook:myversion", "rook/rook:next"}
TolerationValues == {"", "NoSchedule"}
TolerationKeys == {"", "storage"}

NoStart ==
    [op |-> "none", namespace |-> "", image |-> "", fault |-> "none", before |-> {},
     log |-> <<>>, err |-> nil]

DeployParked == daemonSets = {} /\ roles = {} /\ startLast = NoStart

DeployInit == DeployParked

DoStart ==
    /\ \E ns \in DeployNamespaces, image \in DiscoverImages,
          value \in TolerationValues, key \in TolerationKeys, fault \in StartFaults :
          \E r \in {Start(daemonSets, roles, ns, image, value, key, fault)} :
             /\ daemonSets' = r.sets
             /\ roles' = r.roles
             /\ startLast' = [op |-> "Start", namespace |-> ns, image |-> image,
                              fault |-> fault, before |-> daemonSets, log |-> r.log,
                              err |-> r.err]
    /\ UNCHANGED notDeploy

DeployNext == DoStart

(***************************************************************************)
(* The operator side as a state machine: the exported functions are called *)
(* one after the other, each call is one step.                             *)
(***************************************************************************)
\* explicit device lists, as the cluster's storage spec gives them (a name may
\* be listed twice)
DeviceLists == {[i \in 1..Len(l) |-> Device(l[i])] : l \in SeqsUpTo(DevNames, MaxList)}

\* to-free lists
FreeLists == {[i \in 1..Len(l) |-> Device(l[i])] :
                 l \in {m \in SeqsUpTo(DevNames, Cardinality(DevNames)) : NoRepeat(m)}}

\* filter patterns: none, one that matches sdb alone, one that does not compile
sdbPattern == <<"^", "s", ".", "b", "$">>
Filters == {<<>>, sdbPattern, <<"(">>}

\* the arguments GetAvailableDevices is called with: an explicit list alone, a
\* one-device list together with a filter and the use-all flag, or no list and
\* any filter and flag; with an empty node name, no list and no filter
GetInputs ==
    {i \in [node : NodeNames, devices : DeviceLists, filter : Filters, useAll : BOOLEAN] :
        /\ Len(i.devices) > 1 => i.filter = <<>> /\ ~i.useAll
        /\ Len(i.devices) = 1 => \/ i.filter = <<>> /\ ~i.useAll
                                 \/ i.filter = sdbPattern /\ i.useAll
        /\ i.node = "" => i.devices = <<>> /\ i.filter = <<>>}

\* the arguments FreeDevices is called with
FreeInputs ==
    {i \in [node : NodeNames, devices : FreeLists] :
        i.node = "" => i.devices = <<Device(sda)>>}

\* what the discovery daemons have published: n1 has two devices, n2 has one
Inventory ==
    [n \in Nodes |-> IF n = "n1" THEN <<LocalDisk(sda), LocalDisk(sdb)>>
                     ELSE <<LocalDisk(sdb)>>]

RawDeviceRecords ==
    [c \in {RawDeviceCMName \o n : n \in Nodes} |->
        LET n == CHOOSE n \in Nodes : RawDeviceCMName \o n = c
        IN  ConfigMap(AppName, n, Marshal(Inventory[n]))]

\* the store with sdb of n1 claimed
ClaimedRecords ==
    LET name == deviceInUseCMName \o "n1"
    IN  [c \in DOMAIN RawDeviceRecords \cup {name} |->
            IF c = name
            THEN ConfigMap(deviceInUseAppName, "n1", Marshal(<<LocalDisk(sdb)>>))
            ELSE RawDeviceRecords[c]]

(***************************************************************************)
(* Two callers of GetAvailableDevices on one node at once.  Every call of  *)
(* the API server is one step of its caller; what a caller holds between   *)
(* two calls is its copy of what the server answered.                      *)
(***************************************************************************)
RaceCallers == {"c1", "c2"}
RaceNode == "n1"

\* the store after every claim of n1 was freed: the in-use record holds an
\* empty list
FreedRecords ==
    [ClaimedRecords EXCEPT ![deviceInUseCMName \o RaceNode].data = Marshal(<<>>)]

RaceStores == {RawDeviceRecords, ClaimedRecords, FreedRecords}

\* what the two callers ask for: sda, sda and sdb, or every device
RaceInputs ==
    {i \in GetInputs : /\ i.node = RaceNode /\ i.filter = <<>>
                       /\ i.devices \in {<<>>, <<Device(sda)>>, <<Device(sda), Device(sdb)>>}
                       /\ i.devices = <<>> <=> i.useAll}

Caller(in, pc, all, inUse, cm, held, results, err) ==
    [in |-> in, pc |-> pc, nodeAllDevices |-> all, devicesInUse |-> inUse, cm |-> cm,
     held |-> held, results |-> results, err |-> err]

Returned(c, results, err) == [c EXCEPT !.pc = "done", !.results = results, !.err = err]

\* the write at the end of GetAvailableDevices: the record the caller holds,
\* with the caller's list as its whole text, replaces the stored record
MarkInUse_Merge(store, name, held, devicesInUse) ==
    LET now == Unmarshal(store[name].data).val
        new(d) == ~\E j \in 1..Len(now) : now[j].Name = d.Name
    IN  UpdateConfigMap(store, name,
            [held EXCEPT !.data = Marshal(now \o SelectSeq(devicesInUse, new))], "none")

MarkInUse(store, name, held, devicesInUse) ==
    UpdateConfigMap(store, name, [held EXCEPT !.data = Marshal(devicesInUse)], "none")

RaceParked == raceStore = <<>> /\ callers = <<>> /\ raceLog = <<>>

RaceInit ==
    /\ raceStore \in RaceStores
    /\ callers \in [RaceCallers ->
                      {Caller(i, "start", <<>>, <<>>, NoCM, NoCM, <<>>, nil) : i \in RaceInputs}]
    /\ raceLog = <<>>

\* the early return and the call of ListDevices
RaceListDevices(c) ==
    /\ callers[c].pc = "start"
    /\ LET in == callers[c].in
           all == ListDevices(raceStore, in.node, "none")
       IN  /\ callers' = [callers EXCEPT ![c] =
                 IF NothingRequested(in.devices, in.filter, in.useAll)
                 THEN Returned(@, <<>>, nil)
                 ELSE IF all.err # nil THEN Returned(@, <<>>, all.err)
                 ELSE IF in.node \notin DOMAIN all.devices
                 THEN Returned(@, <<>>, "node has no devices")
                 ELSE [@ EXCEPT !.pc = "listed", !.nodeAllDevices = all.devices[in.node]]]
           /\ raceLog' = Append(raceLog, <<c, "list">>)
    /\ UNCHANGED <<raceStore, notRace>>

\* ListDevicesInUse up to its return or to the call of Create
RaceListInUse(c) ==
    /\ callers[c].pc = "listed"
    /\ LET kept == InUseRecordsKept(raceStore, callers[c].in.node)
       IN  callers' = [callers EXCEPT ![c] =
              IF kept # {}
              THEN LET name == CHOOSE name \in kept : TRUE
                   IN  [@ EXCEPT !.pc = "read", !.cm = name, !.held = raceStore[name],
                                 !.devicesInUse = Unmarshal(raceStore[name].data).val]
              ELSE [@ EXCEPT !.pc = "creating"]]
    /\ raceLog' = Append(raceLog, <<c, "listInUse">>)
    /\ UNCHANGED <<raceStore, notRace>>

\* the Create that ends ListDevicesInUse when no record was found
RaceCreate(c) ==
    /\ callers[c].pc = "creating"
    /\ LET name == deviceInUseCMName \o callers[c].in.node
           made == CreateConfigMap(raceStore, name, NewInUseConfigMap(callers[c].in.node),
                                   "none")
       IN  /\ raceStore' = made.store
           /\ callers' = [callers EXCEPT ![c] =
                 IF made.err # nil THEN Returned(@, <<>>, made.err)
                 ELSE [@ EXCEPT !.pc = "read", !.cm = name, !.held = made.store[name],
                               !.devicesInUse = <<>>]]
    /\ raceLog' = Append(raceLog, <<c, "create">>)
    /\ UNCHANGED notRace

\* the rest of GetAvailableDevices: the selection and the Update
RaceUpdate(c) ==
    /\ callers[c].pc = "read"
    /\ LET in == callers[c].in
           nodeDevices == FilterInUse(callers[c].nodeAllDevices, callers[c].devicesInUse)
           sel == SelectDevices(in.devices, in.filter, in.useAll, nodeDevices)
           devicesInUse == callers[c].devicesInUse \o sel.claimed
           upd == MarkInUse(raceStore, callers[c].cm, callers[c].held, devicesInUse)
       IN  IF Len(sel.results) > 0
           THEN /\ raceStore' = upd.store
                /\ callers' = [callers EXCEPT ![c] =
                      Returned([@ EXCEPT !.devicesInUse = devicesInUse], sel.results, upd.err)]
                /\ raceLog' = Append(raceLog, <<c, "update">>)
           ELSE /\ callers' = [callers EXCEPT ![c] = Returned(@, <<>>, nil)]
                /\ UNCHANGED <<raceStore, raceLog>>
    /\ UNCHANGED notRace

RaceNext ==
    \E c \in RaceCallers :
        \/ RaceListDevices(c)
        \/ RaceListInUse(c)
        \/ RaceCreate(c)
        \/ RaceUpdate(c)

(***************************************************************************)
(* A claim, a release and a second claim with the arguments of the first,  *)
(* one caller, one call after the other.  Between the release and the      *)
(* second claim the daemon of the node may publish a new inventory.        *)
(***************************************************************************)
NoReturn == [results |-> <<>>, err |-> nil]

Trip(pc, in, first, toFree, free, published, again) ==
    [pc |-> pc, in |-> in, first |-> first, toFree |-> toFree, free |-> free,
     published |-> published, again |-> again]

TripParked ==
    /\ tripStore = <<>>
    /\ trip = Trip("none", <<>>, NoReturn, <<>>, NoReturn, FALSE, NoReturn)

TripInit ==
    /\ tripStore \in {RawDeviceRecords, ClaimedRecords}
    /\ trip \in {Trip("claim", i, NoReturn, <<>>, NoReturn, FALSE, NoReturn) : i \in GetInputs}

TripClaim ==
    /\ trip.pc = "claim"
    /\ \E fault \in Faults :
          \E r \in {GetAvailableDevices(tripStore, trip.in.node, trip.in.devices,
                                       trip.in.filter, trip.in.useAll, fault)} :
             /\ tripStore' = r.store
             /\ trip' = [trip EXCEPT !.pc = "free",
                                     !.first = [results |-> r.results, err |-> r.err]]
    /\ UNCHANGED notTrip

TripFree ==
    /\ trip.pc = "free"
    /\ \E i \in FreeInputs, fault \in Faults :
          /\ i.node = trip.in.node
          /\ \E r \in {FreeDevices(tripStore, i.node, i.devices, fault)} :
                /\ tripStore' = r.store
                /\ trip' = [trip EXCEPT !.pc = "again", !.toFree = i.devices,
                                        !.free = [results |-> <<>>, err |-> r.err]]
    /\ UNCHANGED notTrip

\* the daemon of n1 finds that sda is gone and publishes what is left
TripPublish ==
    /\ trip.pc = "again"
    /\ ~trip.published
    /\ \E r \in {UpdateConfigMap(tripStore, RawDeviceCMName \o "n1",
                    [tripStore[RawDeviceCMName \o "n1"] EXCEPT
                        !.data = Marshal(<<LocalDisk(sdb)>>)], "none")} :
          tripStore' = r.store
    /\ trip' = [trip EXCEPT !.published = TRUE]
    /\ UNCHANGED notTrip

TripClaimAgain ==
    /\ trip.pc = "again"
    /\ \E fault \in Faults :
          \E r \in {GetAvailableDevices(tripStore, trip.in.node, trip.in.devices,
                                       trip.in.filter, trip.in.useAll, fault)} :
             /\ tripStore' = r.store
             /\ trip' = [trip EXCEPT !.pc = "done",
                                     !.again = [results |-> r.results, err |-> r.err]]
    /\ UNCHANGED notTrip

TripNext ==
    \/ TripClaim
    \/ TripFree
    \/ TripPublish
    \/ TripClaimAgain

Call(op, node, devices, filter, useAll, before, results, err, calls, cm) ==
    [op |-> op, node |-> node, devices |-> devices, filter |-> filter,
     useAll |-> useAll, before |-> before, results |-> results, err |-> err,
     calls |-> calls, cm |-> cm]

DiscoverParked ==
    /\ configMaps = <<>> /\ apiFault = "none"
    /\ last = Call("none", "", <<>>, <<>>, FALSE, <<>>, <<>>, nil, <<>>, NoCM)

DiscoverInit ==
    /\ configMaps \in {RawDeviceRecords, ClaimedRecords}
    /\ apiFault \in Faults
    /\ last = Call("none", "", <<>>, <<>>, FALSE, configMaps, <<>>, nil, <<>>, NoCM)

DoListDevicesInUse ==
    \E nodeName \in NodeNames :
        \E r \in {ListDevicesInUse(configMaps, nodeName, apiFault)} :
            /\ configMaps' = r.store
            /\ last' = Call("ListDevicesInUse", nodeName, <<>>, <<>>, FALSE,
                            configMaps, r.devices, r.err, r.calls, r.cm)
            /\ UNCHANGED <<apiFault, notDiscover>>

DoFreeDevices ==
    \E i \in FreeInputs :
        \E r \in {FreeDevices(configMaps, i.node, i.devices, apiFault)} :
            /\ configMaps' = r.store
            /\ last' = Call("FreeDevices", i.node, i.devices, <<>>, FALSE,
                            configMaps, <<>>, r.err, r.calls, NoCM)
            /\ UNCHANGED <<apiFault, notDiscover>>

DoGetAvailableDevices ==
    \E i \in GetInputs :
        \E r \in {GetAvailableDevices(configMaps, i.node, i.devices, i.filter,
                                     i.useAll, apiFault)} :
            /\ configMaps' = r.store
            /\ last' = Call("GetAvailableDevices", i.node, i.devices, i.filter,
                            i.useAll, configMaps, r.results, r.err, r.calls, NoCM)
            /\ UNCHANGED <<apiFault, notDiscover>>

(***************************************************************************)
(* The OSD agent: runOSD and the process map.  The process manager starts  *)
(* ceph-osd unless a process with the search pattern, the --osd-uuid       *)
(* argument, runs already; then it returns no handle and no error.         *)
(***************************************************************************)
MaxStarts == 3

\* the nil *proc.MonitoredProc; a handle is the pid of the process
NoProc == 0

Child(pid, id, uuid) == [pid |-> pid, id |-> id, uuid |-> uuid]

\* procMan.Start with proc.ReuseExisting: [process, err, children]
procStart(running, pid, id, uuid, fault) ==
    IF fault
    THEN [process |-> NoProc, err |-> Error(<<"exec: ceph-osd: not found">>),
          children |-> running]
    ELSE IF \E c \in running : c.uuid = uuid
    THEN [process |-> NoProc, err |-> NoError, children |-> running]
    ELSE [process |-> pid, err |-> NoError,
          children |-> running \cup {Child(pid, id, uuid)}]

\* the test of the handle procMan.Start returned
Tracks_Always(process) == TRUE

Tracks(process) == process # NoProc

\* runOSD with the process map: [err, procMap, children, process]
runOSDTracked(map, running, pid, id, uuid, fault) ==
    LET r == procStart(running, pid, id, uuid, fault)
    IN  IF ~r.err.isNil
        THEN [err |-> Error(<<"failed to start osd ", ToString(id), ": ">> \o r.err.text),
              procMap |-> map, children |-> r.children, process |-> r.process]
        ELSE [err |-> NoError,
              procMap |-> IF Tracks(r.process)
                          THEN [i \in DOMAIN map \cup {id} |->
                                   IF i = id THEN r.process ELSE map[i]]
                          ELSE map,
              children |-> r.children, process |-> r.process]

\* the OSDs runOSD is called for: OSD 1 with its UUID, OSD 2, and OSD 1 set up
\* again with another UUID
RunOSDs == {<<osdID, "ua">>, <<otherOSD, "ub">>, <<osdID, "uc">>}

NoRun == [op |-> "none"]

RunParked == children = {} /\ procMap = <<>> /\ started = 0 /\ runLast = NoRun

RunInit == RunParked

DoRunOSD ==
    /\ started < MaxStarts
    /\ \E o \in RunOSDs, fault \in BOOLEAN :
          \E r \in {runOSDTracked(procMap, children, started + 1, o[1], o[2], fault)} :
             /\ runLast' = [op |-> "runOSD", id |-> o[1], uuid |-> o[2],
                            running |-> children, map |-> procMap,
                            process |-> r.process, err |-> r.err]
             /\ procMap' = r.procMap
             /\ children' = r.children
             /\ started' = IF r.process # NoProc THEN started + 1 ELSE started
    /\ UNCHANGED notRun

\* a ceph-osd process ends; the agent is not told and keeps the handle
ChildExits ==
    /\ \E c \in children :
          /\ children' = children \ {c}
          /\ runLast' = [op |-> "exit", id |-> c.id, uuid |-> c.uuid,
                         running |-> children, map |-> procMap,
                         process |-> c.pid, err |-> NoError]
    /\ UNCHANGED <<procMap, started, notRun>>

RunNext ==
    \/ DoRunOSD
    \/ ChildExits

(***************************************************************************)
(* GetDevicePartitions.  The sizes are unsigned integers of UintBits bits  *)
(* in place of 64; the output of lsblk is the sequence of the properties   *)
(* of its lines.                                                           *)
(***************************************************************************)
UintBits == 6
MaxRows == 3

UintMod == 2 ^ UintBits

\* strconv.ParseUint(s, 10, bits): [err, n]
ParseUint(s) ==
    IF s = <<>> \/ \E k \in DOMAIN s : ~IsDigit(s[k])
    THEN [err |-> Error(<<"strconv.ParseUint: parsing: invalid syntax">>), n |-> 0]
    ELSE IF DigitsValue(s, 0) >= UintMod
    THEN [err |-> Error(<<"strconv.ParseUint: parsing: value out of range">>),
          n |-> UintMod - 1]
    ELSE [err |-> NoError, n |-> DigitsValue(s, 0)]

\* the properties of one line of lsblk --pairs
Props(name, size, type, pkname) ==
    [NAME |-> name, SIZE |-> size, TYPE |-> type, PKNAME |-> pkname]

SizedPartition(name, size, label) == [Name |-> name, Size |-> size, Label |-> label]

\* the sum and the difference of two unsigned integers
UintAdd(a, b) == (a + b) % UintMod

UintSub_Saturating(a, b) == IF a >= b THEN a - b ELSE 0

UintSub(a, b) == (a + UintMod - b) % UintMod

\* the loop of GetDevicePartitions over the lines; acc is [deviceSize,
\* totalPartitionSize, partitions, err]; badLabel is the partition whose label
\* cannot be read
RECURSIVE partitionsLoop(_, _, _, _)
partitionsLoop(device, partInfo, badLabel, acc) ==
    IF partInfo = <<>> THEN acc
    ELSE LET props == Head(partInfo)
             size == ParseUint(props.SIZE)
         IN  IF props.NAME = device
             THEN IF ~size.err.isNil
                  THEN [acc EXCEPT !.err = Error(<<"failed to get device ", device,
                                                   " size. ">> \o size.err.text)]
                  ELSE partitionsLoop(device, Tail(partInfo), badLabel,
                                      [acc EXCEPT !.deviceSize = size.n])
             ELSE IF props.PKNAME = device /\ props.TYPE = PartType
             THEN IF ~size.err.isNil
                  THEN [acc EXCEPT !.err = Error(<<"failed to get partition ", props.NAME,
                                                   " size. ">> \o size.err.text)]
                  ELSE IF props.NAME = badLabel
                  THEN [acc EXCEPT !.err = Error(<<"failed to get partition label">>)]
                  ELSE partitionsLoop(device, Tail(partInfo), badLabel,
                          [acc EXCEPT
                              !.totalPartitionSize = UintAdd(acc.totalPartitionSize, size.n),
                              !.partitions = Append(acc.partitions,
                                  SizedPartition(props.NAME, size.n, "ROOK-OSD0-BLOCK"))])
             ELSE partitionsLoop(device, Tail(partInfo), badLabel, acc)

\* GetDevicePartitions: [partitions, unusedSpace, err]
GetDevicePartitions(device, output, badLabel) ==
    LET r == partitionsLoop(device, output.lines, badLabel,
                            [deviceSize |-> 0, totalPartitionSize |-> 0,
                             partitions |-> <<>>, err |-> NoError])
    IN  IF ~output.err.isNil
        THEN [partitions |-> <<>>, unusedSpace |-> 0,
              err |-> Error(<<"failed to get device ", device, " partitions. ">>
                            \o output.err.text)]
        ELSE IF ~r.err.isNil
        THEN [partitions |-> <<>>, unusedSpace |-> 0, err |-> r.err]
        ELSE [partitions |-> r.partitions,
              unusedSpace |-> IF r.deviceSize > 0
                              THEN UintSub(r.deviceSize, r.totalPartitionSize) ELSE 0,
              err |-> NoError]

\* the lines lsblk can print for the device sdb
LsblkLines ==
    {Props("sdb", <<"4", "0">>, DiskType, ""),
     Props("sdb", <<"0">>, DiskType, ""),
     Props("sdb", <<>>, DiskType, ""),
     Props("sdb1", <<"1", "0">>, PartType, "sdb"),
     Props("sdb2", <<"3", "0">>, PartType, "sdb"),
     Props("sdb3", <<"2", "0">>, PartType, "sdb"),
     Props("sdb4", <<"9", "9">>, PartType, "sdb"),
     Props("usr", <<"5">>, "crypt", "sdb1"),
     Props("sdc1", <<"3", "0">>, PartType, "sdc")}

\* the outputs of lsblk: no name is printed twice
LsblkOutputs ==
    {[err |-> ExecFailed, lines |-> <<>>]}
    \cup {[err |-> NoError, lines |-> l] :
            l \in {q \in UNION {[1..n -> LsblkLines] : n \in 0..MaxRows} :
                      \A j, k \in DOMAIN q : j # k => q[j].NAME # q[k].NAME}}

NoPartCall == [op |-> "none"]

PartParked == partLast = NoPartCall

\* the call to come: the device, what lsblk prints and the partition whose
\* label cannot be read
PartInit ==
    partLast \in {[op |-> "call", device |-> "sdb", output |-> output, badLabel |-> b] :
                     output \in LsblkOutputs, b \in {"", "sdb1"}}

DoGetDevicePartitions ==
    /\ partLast.op = "call"
    /\ \E r \in {GetDevicePartitions(partLast.device, partLast.output, partLast.badLabel)} :
          partLast' = [op |-> "GetDevicePartitions", device |-> partLast.device,
                       output |-> partLast.output, badLabel |-> partLast.badLabel,
                       partitions |-> r.partitions, unusedSpace |-> r.unusedSpace,
                       err |-> r.err]
    /\ UNCHANGED notPart

PartNext == DoGetDevicePartitions

DiscoverNext ==
    \/ DoListDevicesInUse
    \/ DoFreeDevices
    \/ DoGetAvailableDevices

Init == DiscoverInit /\ ProbeParked /\ DaemonParked /\ OperatorParked /\ RebalanceParked
        /\ AgentParked /\ DeployParked /\ RaceParked /\ TripParked /\ RunParked /\ PartParked

Spec == Init /\ [][DiscoverNext]_vars

DeploySpecInit ==
    DeployInit /\ DiscoverParked /\ ProbeParked /\ DaemonParked /\ OperatorParked
        /\ RebalanceParked /\ AgentParked /\ RaceParked /\ TripParked /\ RunParked /\ PartParked

RaceSpecInit ==
    RaceInit /\ DiscoverParked /\ ProbeParked /\ DaemonParked /\ OperatorParked
        /\ RebalanceParked /\ AgentParked /\ DeployParked /\ TripParked /\ RunParked /\ PartParked

RaceSpec == RaceSpecInit /\ [][RaceNext]_vars

TripSpecInit ==
    TripInit /\ DiscoverParked /\ ProbeParked /\ DaemonParked /\ OperatorParked
        /\ RebalanceParked /\ AgentParked /\ DeployParked /\ RaceParked
        /\ RunParked /\ PartParked

TripSpec == TripSpecInit /\ [][TripNext]_vars

RunSpecInit ==
    RunInit /\ DiscoverParked /\ ProbeParked /\ DaemonParked /\ OperatorParked
        /\ RebalanceParked /\ AgentParked /\ DeployParked /\ RaceParked /\ TripParked
        /\ PartParked

RunSpec == RunSpecInit /\ [][RunNext]_vars

PartSpecInit ==
    PartInit /\ DiscoverParked /\ ProbeParked /\ DaemonParked /\ OperatorParked
        /\ RebalanceParked /\ AgentParked /\ DeployParked /\ RaceParked /\ TripParked
        /\ RunParked

PartSpec == PartSpecInit /\ [][PartNext]_vars

DeploySpec == DeploySpecInit /\ [][DeployNext]_vars

(***************************************************************************)
(* The specifications of the device scan and of the daemon.                *)
(***************************************************************************)
DoProbeDevices ==
    /\ ~probeOut.done
    /\ \E r \in {probeDevices(probeIn)} :
          probeOut' = [done |-> TRUE, devices |-> r.devices, err |-> r.err]
    /\ UNCHANGED <<probeIn, notProbe>>

ProbeNext == DoProbeDevices

ProbeSpecInit == ProbeInit /\ DiscoverParked /\ DaemonParked /\ OperatorParked /\ RebalanceParked
        /\ AgentParked /\ DeployParked /\ RaceParked /\ TripParked /\ RunParked /\ PartParked

ProbeSpec == ProbeSpecInit /\ [][ProbeNext]_vars

DaemonNext ==
    \/ RunStart
    \/ RunProbe
    \/ RunGet
    \/ RunCreate
    \/ RunPublish
    \/ RunNotify
    \/ SigtermNotified
    \/ SigtermKills
    \/ RunReceive
    \/ Restart

DaemonSpecInit == DaemonInit /\ DiscoverParked /\ ProbeParked /\ OperatorParked /\ RebalanceParked
        /\ AgentParked /\ DeployParked /\ RaceParked /\ TripParked /\ RunParked /\ PartParked

DaemonSpec == DaemonSpecInit /\ [][DaemonNext]_vars

\* the Go scheduler runs a goroutine whose select has a ready case
DaemonLiveSpec == DaemonSpec /\ WF_vars(RunReceive)

OperatorNext ==
    \/ OpRunStart
    \/ OpInitResources
    \/ OpRetryDelay
    \/ OpStartAgent
    \/ OpNotify
    \/ OpServerVersion
    \/ OpStartProvisioner
    \/ OpStartWatch
    \/ OpSignalNotified
    \/ OpSignalKills
    \/ OpReceive
    \/ OpRestart

OperatorSpecInit == OperatorInit /\ DiscoverParked /\ ProbeParked /\ DaemonParked /\ RebalanceParked
        /\ AgentParked /\ DeployParked /\ RaceParked /\ TripParked /\ RunParked /\ PartParked

OperatorSpec == OperatorSpecInit /\ [][OperatorNext]_vars

\* the Go scheduler runs a goroutine whose select has a ready case
OperatorLiveSpec == OperatorSpec /\ WF_vars(OpReceive)

RebalanceNext ==
    \/ WaitStart
    \/ Phase1Poll
    \/ Phase2Poll

RebalanceSpecInit ==
    RebalanceInit /\ DiscoverParked /\ ProbeParked /\ DaemonParked /\ OperatorParked
        /\ AgentParked /\ DeployParked /\ RaceParked /\ TripParked /\ RunParked /\ PartParked

RebalanceSpec == RebalanceSpecInit /\ [][RebalanceNext]_vars

\* every call of the client returns and every delay of util.Retry ends, so a
\* retry loop that has an attempt left makes it
RebalanceLiveSpec == RebalanceSpec /\ WF_vars(Phase1Poll \/ Phase2Poll)

\* getOSDInfo
getOSDInfo(cfg) == OSDInfo(cfg.id, getOSDRootDir(cfg.configRoot, cfg.id), isFilestore(cfg))

\* the values of the type osdConfig: of a directory or not, with an entry of
\* the partition scheme or none, and the store type of the agent
OsdConfigs ==
    {osdConfig(osdID, "/var/lib/rook", dir, entry, t) :
        dir \in BOOLEAN, t \in StoreTypes,
        entry \in {NoSchemeEntry}
                   \cup {SchemeEntry(osdID, st, <<Partition("sdx", "ux")>>) : st \in StoreTypes}}

DoGetOSDInfo ==
    /\ \E cfg \in OsdConfigs :
          agentLast' = [op |-> "getOSDInfo", cfg |-> cfg, osd |-> getOSDInfo(cfg),
                        bluestore |-> isBluestore(cfg), filestore |-> isFilestore(cfg)]
    /\ UNCHANGED <<osdProc, notAgent>>

AgentNext ==
    \/ DoGetOSDInfo
    \/ DoRemoveOSD
    \/ DoConfigureDirs
    \/ DoStartOSD
    \/ DoRemoveDirs
    \/ DoRemoveDevices
    \/ DoConfigureDevices

AgentSpecInit ==
    AgentInit /\ DiscoverParked /\ ProbeParked /\ DaemonParked /\ OperatorParked
        /\ RebalanceParked /\ DeployParked /\ RaceParked /\ TripParked /\ RunParked /\ PartParked

AgentSpec == AgentSpecInit /\ [][AgentNext]_vars

\* the computation of the partition scheme alone: it reads and writes no
\* field of the agent but the configuration
SchemeNext ==
    \/ DoGetPartitionPerfScheme
    \/ DoRerunPartitionPerfScheme

SchemeSpecInit ==
    AgentInit /\ DiscoverParked /\ ProbeParked /\ DaemonParked /\ OperatorParked
        /\ RebalanceParked /\ DeployParked /\ RaceParked /\ TripParked /\ RunParked /\ PartParked

SchemeSpec == SchemeSpecInit /\ [][SchemeNext]_vars


(***************************************************************************)
(* Claims about the operator side.                                         *)
(***************************************************************************)
\* the names a text lists, in order (none when the text is empty or malformed)
NamesIn(text) ==
    LET u == Unmarshal(text)
    IN  IF text = <<>> \/ u.err THEN <<>> ELSE [k \in 1..Len(u.val) |-> u.val[k].Name]

NameSet(list) == {list[k].Name : k \in 1..Len(list)}

Range(q) == {q[k] : k \in 1..Len(q)}

\* the text of a node's in-use record in a store (empty when there is none)
InUseText(store, n) ==
    IF ("local-device-in-use-" \o n) \in DOMAIN store
    THEN store["local-device-in-use-" \o n].data ELSE <<>>

\* the names a node's discovery record lists in a store
DiscoveredNames(store, n) ==
    IF ("raw-device-" \o n) \in DOMAIN store
    THEN Range(NamesIn(store["raw-device-" \o n].data)) ELSE {}

\* C1: two successive GetAvailableDevices calls for the same node with the same
\* explicit list, filter and use-all flag (the inventory is fixed, no call in
\* between) return the same set of devices.
C1_SecondCallReturnsSame ==
    [][(/\ last.op = "GetAvailableDevices" /\ last'.op = "GetAvailableDevices"
        /\ last'.node = last.node /\ last'.devices = last.devices
        /\ last'.filter = last.filter /\ last'.useAll = last.useAll
        /\ last.err = nil /\ last'.err = nil)
       => NameSet(last'.results) = NameSet(last.results)]_vars

\* C2: no device name occurs more than once in a node's in-use record.
C2_NoDuplicateInUse ==
    \A n \in Nodes : NoRepeat(NamesIn(InUseText(configMaps, n)))

\* C3: every device GetAvailableDevices returns is one of the node's discovered
\* devices and was not in the node's in-use record when the call was made: a
\* claimed device is not handed out again while its entry is in the record.
C3_ReturnedWereFree ==
    last.op = "GetAvailableDevices" =>
        NameSet(last.results) \subseteq
            (DiscoveredNames(last.before, last.node)
                \ Range(NamesIn(InUseText(last.before, last.node))))

\* a call that asked for a claimed and for a free device and got the free one
C3_Witness ==
    /\ last.op = "GetAvailableDevices" /\ last.err = nil
    /\ last.results # <<>>
    /\ \E d \in NameSet(last.devices) :
          /\ d \in Range(NamesIn(InUseText(last.before, last.node)))
          /\ d \in DiscoveredNames(last.before, last.node)
          /\ d \notin NameSet(last.results)

\* C4: FreeDevices removes from the node's in-use record exactly the entries
\* named by a device to free and changes nothing else (no other entry, no other
\* record); with an empty node name or an empty list it makes no API call.
C4_FreeRemovesExactlyNamed ==
    last.op = "FreeDevices" =>
        LET name == "local-device-in-use-" \o last.node
            old == NamesIn(InUseText(last.before, last.node))
            kept(x) == x \notin NameSet(last.devices)
        IN  IF last.node = "" \/ last.devices = <<>>
            THEN last.calls = <<>> /\ last.err = nil /\ configMaps = last.before
            ELSE /\ DOMAIN configMaps = DOMAIN last.before
                 /\ \A c \in DOMAIN configMaps \ {name} : configMaps[c] = last.before[c]
                 /\ last.err # nil => configMaps = last.before
                 /\ last.err = nil =>
                       /\ NamesIn(InUseText(configMaps, last.node)) = SelectSeq(old, kept)
                       /\ name \in DOMAIN configMaps =>
                             configMaps[name].labels = last.before[name].labels

\* a call that removed one entry and kept another, with a record of another
\* node holding an entry
C4_Witness ==
    /\ last.op = "FreeDevices" /\ last.err = nil /\ last.node \in Nodes
    /\ Len(NamesIn(InUseText(configMaps, last.node))) > 0
    /\ Len(NamesIn(InUseText(configMaps, last.node)))
          < Len(NamesIn(InUseText(last.before, last.node)))
    /\ \E m \in Nodes \ {last.node} : NamesIn(InUseText(configMaps, m)) # <<>>

\* C5: GetAvailableDevices with no explicit list, no filter and use-all false
\* returns nothing, without error, without any API call and without any change
\* of the store.
C5_NothingRequestedNoEffect ==
    (/\ last.op = "GetAvailableDevices"
     /\ last.devices = <<>> /\ last.filter = <<>> /\ ~last.useAll)
    => /\ last.results = <<>> /\ last.err = nil /\ last.calls = <<>>
       /\ configMaps = last.before

\* such a call for a node without an in-use record, the API server serving
C5_Witness ==
    /\ last.op = "GetAvailableDevices"
    /\ last.devices = <<>> /\ last.filter = <<>> /\ ~last.useAll
    /\ last.node \in Nodes /\ apiFault = "none"
    /\ ("local-device-in-use-" \o last.node) \notin DOMAIN configMaps

\* whether a store holds an in-use record for the node (by its labels)
HasInUseRecord(store, n) ==
    \E c \in DOMAIN store :
        store[c].labels.app = "rook-claimed-devices" /\ store[c].labels.node = n

\* C6: ListDevicesInUse for a node without in-use record creates the empty
\* record local-device-in-use-<node> with the labels app=rook-claimed-devices
\* and rook.io/node=<node> and returns it with an empty device list; with an
\* empty node name it returns "empty node name" and creates nothing.
C6_ListInUseCreatesRecord ==
    last.op = "ListDevicesInUse" =>
        LET name == "local-device-in-use-" \o last.node
        IN  /\ last.node = "" =>
                /\ last.err = "empty node name" /\ last.cm = NoCM
                /\ last.calls = <<>> /\ configMaps = last.before
            /\ (last.node # "" /\ ~HasInUseRecord(last.before, last.node)) =>
                /\ apiFault = "none" => last.err = nil
                /\ last.err = nil =>
                    /\ DOMAIN configMaps = DOMAIN last.before \cup {name}
                    /\ name \notin DOMAIN last.before
                    /\ \A c \in DOMAIN last.before : configMaps[c] = last.before[c]
                    /\ configMaps[name].labels =
                          [app |-> "rook-claimed-devices", node |-> last.node]
                    /\ configMaps[name].data = <<>>
                    /\ last.cm = name /\ last.results = <<>>
                /\ last.err # nil => configMaps = last.before

\* a call that created the record of a node
C6_Witness ==
    /\ last.op = "ListDevicesInUse" /\ last.node \in Nodes /\ last.err = nil
    /\ ~HasInUseRecord(last.before, last.node)
    /\ HasInUseRecord(configMaps, last.node)


(***************************************************************************)
(* Claims about the discovery daemon (DaemonSpec, DaemonLiveSpec).         *)
(***************************************************************************)
Published == dpc \in {"notify", "wait"}
RecordBefore == cmName \in DOMAIN storeBefore
Did(call) == call \in Range(dlog)

\* C7: Run writes the record raw-device-<node> exactly when the record was
\* absent or its stored text differs from the serialization of the scan: a
\* create is issued only for an absent record, an update only for an absent
\* record or a different text, a published run with the same text leaves the
\* store as it was, and after a publish the record holds the serialization of
\* the latest scan.
C7_WritesOnlyOnChange ==
    /\ Did("create") => ~RecordBefore
    /\ Did("update") => (~RecordBefore \/ storeBefore[cmName].data # Marshal(dscan))
    /\ Published =>
         /\ cmName \in DOMAIN nodeStore
         /\ nodeStore[cmName].data = Marshal(dscan)
         /\ Did("create") <=> ~RecordBefore
         /\ Did("update") <=> (~RecordBefore \/ storeBefore[cmName].data # Marshal(dscan))
         /\ (~Did("create") /\ ~Did("update")) => nodeStore = storeBefore

\* a second run with the scan the record already holds: published, no write
C7_Witness ==
    /\ dpc = "wait"
    /\ RecordBefore
    /\ dscan # <<>>
    /\ storeBefore[cmName].data = Marshal(dscan)
    /\ dlog = <<"probe", "get">>
    /\ nodeStore = storeBefore

\* C8: a read of the record that fails with an error other than NotFound
\* makes Run return that error, with no create, no update and no wait; a
\* NotFound read is no error and leads to the creation of the record; a nil
\* context returns an error before any scan.
C8_ReadErrorIsFatal ==
    /\ getErr = "get failed" =>
         /\ dpc \in {"returned", "idle"}
         /\ dret = "get failed"
         /\ ~Did("create") /\ ~Did("update")
         /\ nodeStore = storeBefore
    /\ getErr = "not found" =>
         /\ dret # "not found"
         /\ dpc \in {"publish", "notify", "wait", "returned"} => Did("create")
    /\ contextNil =>
         /\ dpc \in {"returned", "idle"}
         /\ dret = "nil context"
         /\ dlog = <<>>
         /\ nodeStore = storeBefore

\* the read of an existing record failed and Run returned
C8_Witness ==
    /\ dpc = "returned"
    /\ getErr = "get failed"
    /\ dret = "get failed"
    /\ cmName \in DOMAIN nodeStore
    /\ dlog = <<"probe", "get">>

\* C9: after a publish the daemon scans no more and writes no more, it
\* leaves the wait only by returning nil and only with a SIGTERM in the
\* channel, and a SIGTERM delivered to the waiting daemon makes it return
\* nil.
C9_WaitsForSigterm ==
    /\ [][Published =>
            /\ dlog' = dlog /\ nodeStore' = nodeStore /\ dscan' = dscan
            /\ dpc' \in {"notify", "wait", "returned", "killed"}
            /\ dpc' = "returned" => (dpc = "wait" /\ sigc /\ dret' = nil)
            /\ dpc = "wait" => dpc' \in {"wait", "returned"}]_vars
    /\ (dpc = "wait" /\ sigc) ~> (dpc = "returned" /\ dret = nil)

\* the daemon published, received the signal in the wait and returned nil
C9_Witness ==
    /\ dpc = "returned"
    /\ dret = nil
    /\ sigc
    /\ Did("update")

(***************************************************************************)
(* Claims about probeDevices (ProbeSpec).                                  *)
(***************************************************************************)
\* a raw device every check of which succeeds, read off the device itself
ChecksSucceed(device) ==
    /\ ~device.Nil
    /\ ~device.PartErr /\ ~device.FsErr
    /\ ~device.ParentErr /\ (device.PKName # "" \/ device.Name # "")
    /\ ~device.Removable.err
    /\ device.Removable.bytes # <<>>
    /\ Head(device.Removable.bytes) \in {"0", "1"}

Expected(device) == device.Type # PartType /\ ChecksSucceed(device)

Paths(devices) == [k \in 1..Len(devices) |-> devices[k].DevicePath]
PathsOfNames(devices) == [k \in 1..Len(devices) |-> "/dev/" \o devices[k].Name]

\* C10: a device whose ownership/filesystem check, parent lookup or removable
\* probe fails is the only one left out: the result holds, in order, every
\* non-partition device whose checks succeed and nothing else, and the scan
\* returns no error.
C10_BadDeviceOnlyExcludesItself ==
    (probeOut.done /\ probeIn.err = nil) =>
        /\ probeOut.err = nil
        /\ Paths(probeOut.devices) = PathsOfNames(SelectSeq(probeIn.devices, Expected))

\* a disk whose check fails, followed by a disk that is reported
C10_Witness ==
    /\ probeOut.done
    /\ Len(probeIn.devices) = 2
    /\ ~probeIn.devices[1].Nil /\ probeIn.devices[1].Type = DiskType
    /\ ~ChecksSucceed(probeIn.devices[1])
    /\ Expected(probeIn.devices[2])
    /\ Len(probeOut.devices) = 1


(***************************************************************************)
(* Claims about Operator.Run (OperatorSpec, OperatorLiveSpec).             *)
(***************************************************************************)
OpDid(what) == what \in Range(olog)

\* C11: with an empty POD_NAMESPACE Operator.Run returns an error and has
\* attempted no schema registration, started no agent fleet, no provisioner
\* loop and no cluster watch.
C11_NoNamespaceIsFatal ==
    namespace = "" =>
        /\ opc \in {"idle", "returned"}
        /\ opc = "returned" => oret = "Rook operator namespace is not provided"
        /\ olog = <<>>
        /\ initAttempts = 0
        /\ stopChan = 0

\* Run was called without a namespace and has returned
C11_Witness ==
    /\ opc = "returned"
    /\ namespace = ""
    /\ oret # nil

\* C12: Run never returns the error of a failed schema registration: a
\* failed attempt is followed by a wait of initRetryDelay and another
\* attempt, and the agent fleet is started only after an attempt succeeded.
C12_InitRetriedUntilSuccess ==
    /\ [](/\ oret \in {nil, "Rook operator namespace is not provided",
                       "Error starting agent daemonset", "Error getting server version"}
          /\ OpDid("agent") => (initErr = nil /\ initAttempts >= 1)
          /\ opc \notin {"idle", "init", "initwait", "killed"} /\ namespace # ""
                => oclock = initRetryDelay * (initAttempts - 1)
          /\ opc = "initwait" => initErr # nil)
    /\ [][/\ (opc = "init" /\ opc' # "killed") =>
                /\ initAttempts' = initAttempts + 1
                /\ initErr' # nil => opc' = "initwait"
                /\ initErr' = nil => opc' = "agent"
          /\ (opc = "initwait" /\ opc' # "killed") =>
                /\ opc' = "init"
                /\ oclock' = oclock + initRetryDelay]_vars

\* two attempts failed, Run waited twice and the third attempt let the agent
\* fleet start
C12_Witness ==
    /\ OpDid("agent")
    /\ initAttempts = 3
    /\ oclock = 2 * initRetryDelay

\* C13: in the main wait a SIGINT or SIGTERM closes the stop channel once and
\* Run returns nil; the stop channel is never closed before a signal was
\* received.
C13_StopOnlyOnSignal ==
    /\ [](/\ stopChan \in {0, 1}
          /\ stopChan = 1 =>
                /\ received \in {SIGINT, SIGTERM}
                /\ opc \in {"returned", "idle"}
                /\ oret = nil
                /\ OpDid("provisioner") /\ OpDid("watch"))
    /\ [][opc = "wait" =>
            \/ opc' = "wait" /\ stopChan' = stopChan
            \/ /\ opc' = "returned" /\ oret' = nil
               /\ signalChan # <<>>
               /\ stopChan = 0 /\ stopChan' = 1]_vars
    /\ (opc = "wait" /\ signalChan # <<>>) ~> (opc = "returned" /\ oret = nil /\ stopChan = 1)

\* the waiting operator received SIGINT, closed the stop channel and returned
C13_Witness ==
    /\ opc = "returned"
    /\ oret = nil
    /\ received = SIGINT
    /\ stopChan = 1
    /\ OpDid("watch")


(***************************************************************************)
(* Claims about waitForRebalance (RebalanceSpec).                          *)
(***************************************************************************)
\* the poll shows the OSD, known to the baseline, with less used space or
\* fewer placement groups than in the baseline
Decreased(poll) ==
    /\ poll.err = nil
    /\ \E i \in DOMAIN initialUsage.nodes, c \in DOMAIN poll.usage.nodes :
          /\ initialUsage.nodes[i].ID = osdID
          /\ poll.usage.nodes[c].ID = osdID
          /\ \/ poll.usage.nodes[c].UsedKB < initialUsage.nodes[i].UsedKB
             \/ poll.usage.nodes[c].Pgs < initialUsage.nodes[i].Pgs

\* C16: phase 1 runs only with a usage baseline, polls the usage at most
\* Phase1Retries times and ends in success at the first poll that shows a
\* decrease; without such a poll waitForRebalance returns an error and phase
\* 2 is never started.
C16_Phase1WaitsForDecrease ==
    /\ [](/\ initialUsage.isNil => tries1 = 0
          /\ tries1 <= Phase1Retries
          /\ wpc = "phase1" => tries2 = 0
          /\ (wpc = "returned" /\ tries2 = 0) =>
                /\ wret # nil
                /\ tries1 = Phase1Retries
                /\ ~Decreased(wpoll))
    /\ [][wpc = "phase1" =>
            /\ tries1' = tries1 + 1
            /\ tries2' = 0
            /\ wpc' = "phase2" <=> Decreased(wpoll')
            /\ wpc' = "returned" <=> (~Decreased(wpoll') /\ tries1' = Phase1Retries)]_vars

\* no poll of phase 1 showed a decrease for an OSD the baseline knows
C16_Witness ==
    /\ wpc = "returned"
    /\ wret # nil
    /\ ByID(initialUsage, osdID) # NoOSD
    /\ tries1 = Phase1Retries
    /\ tries2 = 0

\* the poll shows no placement group that still uses the OSD, and a clean
\* cluster
PollClean(poll) ==
    /\ poll.err = nil
    /\ \A k \in DOMAIN poll.pgDump :
          /\ poll.pgDump[k].UpPrimaryID # osdID
          /\ poll.pgDump[k].ActingPrimaryID # osdID
          /\ osdID \notin Range(poll.pgDump[k].UpOsdIDs)
          /\ osdID \notin Range(poll.pgDump[k].ActingOsdIDs)
    /\ poll.clean = nil

\* C17: a poll of phase 2 succeeds exactly when the OSD is in no placement
\* group of the dump, as primary or member, up or acting, and the cluster is
\* clean; waitForRebalance returns nil at the first such poll and never after
\* a poll that shows otherwise.
C17_Phase2SucceedsWhenClean ==
    /\ []((wpc = "returned" /\ wret = nil) => (tries2 >= 1 /\ PollClean(wpoll)))
    /\ [][wpc = "phase2" =>
            /\ tries2' = tries2 + 1
            /\ (wpc' = "returned" /\ wret' = nil) <=> PollClean(wpoll')
            /\ (~PollClean(wpoll') /\ tries2' < Phase2Retries) => wpc' = "phase2"]_vars

\* with a baseline, the first poll of phase 2 found the OSD unused and the
\* cluster clean
C17_Witness ==
    /\ wpc = "returned"
    /\ wret = nil
    /\ ~initialUsage.isNil
    /\ tries2 = 1
    /\ wpoll.pgDump # <<>>


(***************************************************************************)
(* Claims about the OSD agent (AgentSpec).                                 *)
(***************************************************************************)
\* the steps of a removal, in the order the claim gives
RemovalOrder ==
    <<"GetOSDUsage", "CrushReweight", "markOSDOut", "waitForRebalance", "Stop",
      "purgeOSD", "deleteOSDFileSystem", "RemoveAll">>

Position(step) == CHOOSE k \in DOMAIN RemovalOrder : RemovalOrder[k] = step

Removed == agentLast.op = "removeOSD"

\* C14: removeOSD makes its calls in the order usage baseline, weight to
\* 0.0, mark out, wait for rebalance, stop of the tracked process, purge,
\* filesystem deletion, root directory deletion; the process is stopped, the
\* OSD purged and the root directory deleted only after waitForRebalance
\* returned success.
C14_RemovalOrder ==
    Removed =>
        /\ \A k \in DOMAIN agentLast.log : agentLast.log[k] \in Range(RemovalOrder)
        /\ \A j, k \in DOMAIN agentLast.log :
              j < k => Position(agentLast.log[j]) < Position(agentLast.log[k])
        /\ \A k \in DOMAIN agentLast.log :
              agentLast.log[k] \in {"Stop", "purgeOSD", "deleteOSDFileSystem", "RemoveAll"} =>
                  /\ agentLast.env.rebalance.isNil
                  /\ \E j \in 1..(k - 1) : agentLast.log[j] = "waitForRebalance"
        /\ agentLast.err.isNil =>
              agentLast.log = SelectSeq(RemovalOrder,
                                        LAMBDA step : step # "Stop" \/ agentLast.id \in agentLast.procs)

\* a removal that ran to the end
C14_Witness ==
    /\ Removed
    /\ agentLast.err.isNil
    /\ agentLast.id \in agentLast.procs
    /\ Len(agentLast.log) = 8
    /\ ~agentLast.env.usage.isNil

\* C15 as stated: only a failure of the weight-set, the mark-out, the
\* rebalance wait or the process stop makes the removal return an error, a
\* failure of the purge included among the tolerated ones.
C15_OnlyFourStepsFatal ==
    Removed =>
        (~agentLast.err.isNil <=>
            \/ ~agentLast.env.reweight.isNil
            \/ ~agentLast.env.markOut.isNil
            \/ ~agentLast.env.rebalance.isNil
            \/ (agentLast.id \in agentLast.procs /\ ~agentLast.env.stop.isNil))

\* C15, amended: the removal returns an error exactly when the weight-set,
\* the mark-out, the rebalance wait, the stop of a tracked process or the
\* purge failed; a failure of the usage baseline, of the filesystem deletion
\* or of the root directory deletion is tolerated.
C15_FiveStepsFatal ==
    Removed =>
        (~agentLast.err.isNil <=>
            \/ ~agentLast.env.reweight.isNil
            \/ ~agentLast.env.markOut.isNil
            \/ ~agentLast.env.rebalance.isNil
            \/ (agentLast.id \in agentLast.procs /\ ~agentLast.env.stop.isNil)
            \/ ~agentLast.env.purge.isNil)

\* the baseline and both deletions failed and the removal returned success
C15_Witness ==
    /\ Removed
    /\ agentLast.err.isNil
    /\ ~agentLast.env.fs.isNil
    /\ ~agentLast.env.rmdir.isNil

\* directory k of the last call of configureDirs got its OSD configured: an
\* ID was registered for it where it had none, and its start sequence succeeded
DirSucceeded(k) ==
    LET dir == agentLast.dirs[k]
        env == agentLast.envs[k]
        id == IF dir.id = unassignedOSDID THEN env.register.id ELSE dir.id
    IN  /\ dir.id = unassignedOSDID => env.register.err.isNil
        /\ startOSD({}, osdConfig(id, dir.path, TRUE, NoSchemeEntry, ""), env.start,
                    agentLast.prepareOnly).err.isNil

\* C18: configureDirs attempts every directory of the map, whatever failed
\* for the directories before it, returns one OSDInfo for every directory that
\* succeeded, and returns an error exactly when a directory failed.
C18_EveryDirAttempted ==
    agentLast.op = "configureDirs" =>
        LET n == Len(agentLast.dirs)
        IN  /\ agentLast.attempted = [k \in 1..n |-> agentLast.dirs[k].path]
            /\ Len(agentLast.osds) = Cardinality({k \in 1..n : DirSucceeded(k)})
            /\ agentLast.err.isNil <=> \A k \in 1..n : DirSucceeded(k)

\* the last call was removeDirs or removeDevices
RemovedItems == agentLast.op \in {"removeDirs", "removeDevices"}

\* item k of the last call of removeDirs or removeDevices failed: its removal
\* returned an error, or its entry could not be taken out of the scheme
ItemFailed(k) ==
    \/ ~removeOSD(agentLast.procs,
                  osdConfig(agentLast.ids[k], "/var/lib/rook", TRUE, NoSchemeEntry, ""),
                  agentLast.envs[k].remove).err.isNil
    \/ ~agentLast.envs[k].scheme.isNil

\* C19: removeDirs and removeDevices run the removal for every item, return an
\* error exactly when an item failed, and the text of that error is the
\* messages of the failed items, one for each, joined by newline.
C19_AllRemovedErrorsJoined ==
    RemovedItems =>
        LET n == Len(agentLast.ids)
            failed == {k \in 1..n : ItemFailed(k)}
        IN  /\ agentLast.attempted = agentLast.ids
            /\ agentLast.err.isNil <=> failed = {}
            /\ Len(agentLast.errorMessages) = Cardinality(failed)
            /\ agentLast.err.text = Join(agentLast.errorMessages, "\n")

\* the scheme the last call of getPartitionPerfScheme loaded records a
\* partition on the disk of the name
RecordedPartitions(name) ==
    \E d \in DOMAIN agentLast.disks :
        /\ agentLast.disks[d].Name = name
        /\ agentLast.disks[d].UUID # ""
        /\ \E e \in DOMAIN agentLast.loaded.scheme.Entries :
              \E q \in DOMAIN agentLast.loaded.scheme.Entries[e].Partitions :
                 agentLast.loaded.scheme.Entries[e].Partitions[q].DiskUUID
                     = agentLast.disks[d].UUID

\* device k of the last call is a fresh dedicated metadata device
FreshMetadataDevice(k) ==
    /\ agentLast.devices[k].mapping.Data = -1
    /\ ~agentLast.devices[k].mapping.Metadata.isNil
    /\ agentLast.devices[k].mapping.Metadata.ids = <<>>
    /\ ~RecordedPartitions(agentLast.devices[k].name)

\* the last call of getPartitionPerfScheme had a fresh dedicated metadata
\* device among its devices and loaded a scheme with a metadata device set
SecondMetadataDevice ==
    /\ agentLast.op = "getPartitionPerfScheme"
    /\ agentLast.loaded.err.isNil
    /\ ~agentLast.loaded.scheme.Metadata.isNil
    /\ \E k \in DOMAIN agentLast.devices : FreshMetadataDevice(k)

\* C20: getPartitionPerfScheme returns an error and no scheme, and never
\* calls registerOSD, when a desired device is a fresh dedicated metadata
\* device and the loaded scheme has a metadata device already.
C20_SecondMetadataDeviceConflicts ==
    SecondMetadataDevice =>
        /\ ~agentLast.err.isNil
        /\ agentLast.scheme.isNil
        /\ agentLast.calls = 0
        /\ agentLast.registered = <<>>

\* the conflict is met after a fresh data device was counted
C20_Witness ==
    /\ SecondMetadataDevice
    /\ Len(agentLast.devices) = 2
    /\ agentLast.devices[1].mapping = FreshData
    /\ FreshMetadataDevice(2)
    /\ ~agentLast.err.isNil
    /\ agentLast.calls = 0

\* the disk UUID of device k of the last call of getPartitionPerfScheme, ""
\* when the inventory has none
DeviceUUID(k) ==
    LET named == {d \in DOMAIN agentLast.disks :
                     agentLast.disks[d].Name = agentLast.devices[k].name}
    IN  IF named = {} THEN "" ELSE agentLast.disks[CHOOSE d \in named : TRUE].UUID

\* the devices of the last call with partitions recorded in the loaded scheme
RecordedDevices ==
    {k \in DOMAIN agentLast.devices : RecordedPartitions(agentLast.devices[k].name)}

\* the name a partition or metadata device recorded as device under diskUUID
\* has after the last call: the current name of the desired device that has
\* partitions recorded under that UUID, if there is one
Refreshed(device, diskUUID) ==
    IF \E k \in RecordedDevices : DeviceUUID(k) = diskUUID
    THEN agentLast.devices[CHOOSE k \in RecordedDevices : DeviceUUID(k) = diskUUID].name
    ELSE device

Started == agentLast.op = "startOSD"

\* every call the last call of startOSD made before it looked at the mode of
\* the agent succeeded: the OSD is prepared
Prepared ==
    LET env == agentLast.env
        cfg == agentLast.cfg
    IN  /\ env.remount.isNil
        /\ env.newOSD =>
              /\ env.mkdir.isNil
              /\ ~cfg.partitionScheme.isNil =>
                    /\ env.loadScheme.isNil
                    /\ cfg.id \notin env.savedIDs => env.format.isNil
              /\ env.initialize.isNil
        /\ ~env.newOSD => env.loadInfo.isNil

\* C22: in prepare-only mode startOSD starts no process and leaves the map of
\* processes as it was, for a new OSD and for one that is set up already, and
\* returns the OSDInfo of an OSD it prepared with no error.
C22_PrepareOnlyStartsNothing ==
    /\ (Started /\ agentLast.prepareOnly) =>
          /\ osdProc = agentLast.procs
          /\ \A k \in DOMAIN agentLast.log : agentLast.log[k] # "runOSD"
          /\ Prepared =>
                /\ agentLast.err.isNil
                /\ ~agentLast.osd.isNil
                /\ agentLast.osd.ID = agentLast.cfg.id
    /\ (agentLast.op = "configureDirs" /\ agentLast.prepareOnly) =>
          osdProc = agentLast.procs

\* an OSD that is set up already and not tracked is prepared, not started
C22_Witness ==
    /\ Started
    /\ agentLast.prepareOnly
    /\ ~agentLast.env.newOSD
    /\ Prepared
    /\ ~agentLast.osd.isNil
    /\ agentLast.cfg.id \notin osdProc

\* C23: an OSD on a device with an entry of the scheme uses bluestore unless
\* the store type of the entry is filestore, an OSD in a directory uses
\* filestore unless the configured store type is bluestore; the blank store
\* type gives bluestore on a device and filestore in a directory.
C23_BackendSelection ==
    Started =>
        LET cfg == agentLast.cfg
        IN  /\ isBluestore(cfg) # isFilestore(cfg)
            /\ (~cfg.dir /\ ~cfg.partitionScheme.isNil) =>
                  (isBluestore(cfg) <=> cfg.partitionScheme.StoreType # "filestore")
            /\ cfg.dir => (isFilestore(cfg) <=> cfg.storeConfig.StoreType # "bluestore")
            /\ ~agentLast.osd.isNil => agentLast.osd.IsFileStore = isFilestore(cfg)

\* a directory with the blank store type was started as filestore
C23_Witness ==
    /\ Started
    /\ agentLast.cfg.dir
    /\ agentLast.cfg.storeConfig.StoreType = ""
    /\ ~agentLast.osd.isNil
    /\ agentLast.osd.IsFileStore

\* the raw devices of the last scan that probeDevices kept, as indexes of the
\* scan in the order of the result
KeptIndex(k) ==
    CHOOSE j \in DOMAIN probeIn.devices :
        /\ ProbeOne(probeIn.devices[j]).keep
        /\ Cardinality({i \in 1..j : ProbeOne(probeIn.devices[i]).keep}) = k

\* the text of the label begins with ROOK-OSD
BeginsWithRookOSD(label) ==
    /\ Len(label) >= 8
    /\ <<label[1], label[2], label[3], label[4], label[5], label[6], label[7], label[8]>>
          = <<"R", "O", "O", "K", "-", "O", "S", "D">>

\* C24: RookOwnsPartitions is true exactly when every partition of the list
\* has a label that begins with ROOK-OSD: true for the empty list, false when
\* any partition has another label.  Stated for the flag of every device a
\* scan returns, against the labels of the partitions of that device.
C24_OwnsExactlyWhenAllRookLabels ==
    probeOut.done =>
        \A k \in DOMAIN probeOut.devices :
            probeOut.devices[k].OwnPartition
                <=> \A q \in DOMAIN probeIn.devices[KeptIndex(k)].Labels :
                       BeginsWithRookOSD(probeIn.devices[KeptIndex(k)].Labels[q])

\* a scan returned a disk with no partitions as owned and a disk with a rook
\* partition and a foreign one as not owned
C24_Witness ==
    /\ probeOut.done
    /\ Len(probeOut.devices) = 2
    /\ probeIn.devices[1].Labels = <<>>
    /\ probeOut.devices[1].OwnPartition
    /\ probeIn.devices[2].Labels = <<RookLabel, OtherLabel>>
    /\ ~probeOut.devices[2].OwnPartition
\* C25: Discover.Start is idempotent. A call returns nil exactly when the API
\* server refused nothing, whether the DaemonSet was created by this call or
\* was already there; after a nil return the namespace holds exactly one
\* DaemonSet; a call that finds the DaemonSet in place leaves every stored
\* DaemonSet as it was; a refused role or any creation error other than
\* AlreadyExists makes Start return an error, and a refused role creates nothing.
C25_StartIdempotent ==
    startLast.op = "Start" =>
        LET had == DaemonSetsOf(startLast.before, startLast.namespace)
            has == DaemonSetsOf(daemonSets, startLast.namespace)
        IN  /\ (startLast.err = nil) <=> (startLast.fault = "none")
            /\ startLast.err = nil => Cardinality(has) = 1
            /\ had # {} => daemonSets = startLast.before
            /\ startLast.fault = "role" =>
                  /\ startLast.err = "failed to init RBAC for rook-discover"
                  /\ daemonSets = startLast.before
            /\ startLast.fault = "create" =>
                  /\ startLast.err = "Error starting discover daemonset"
                  /\ daemonSets = startLast.before

\* a second call of Start, with another image, in a namespace whose DaemonSet
\* an earlier call created
C25_Witness ==
    /\ startLast.op = "Start"
    /\ startLast.err = nil
    /\ startLast.log = <<"rook-discover daemonset already exists">>
    /\ \E d \in DaemonSetsOf(startLast.before, startLast.namespace) :
          d.Container.Image # startLast.image
    /\ Cardinality(DaemonSetsOf(daemonSets, startLast.namespace)) = 1

\* the position of a caller's call in the log (0: the call was not made)
LogIndex(c, call) ==
    IF \E k \in 1..Len(raceLog) : raceLog[k] = <<c, call>>
    THEN CHOOSE k \in 1..Len(raceLog) : raceLog[k] = <<c, call>>
    ELSE 0

\* both callers read the in-use record before either wrote it, and w wrote last
BothReadThenWrote(v, w) ==
    /\ v # w
    /\ callers[v].pc = "done" /\ callers[w].pc = "done"
    /\ callers[v].err = nil /\ callers[w].err = nil
    /\ LogIndex(v, "update") > 0
    /\ LogIndex(v, "update") < LogIndex(w, "update")
    /\ LogIndex(v, "listInUse") < LogIndex(v, "update")
    /\ LogIndex(w, "listInUse") < LogIndex(v, "update")
    /\ LogIndex(v, "create") = 0 /\ LogIndex(w, "create") = 0

\* C26: when two calls of GetAvailableDevices on one node both read the in-use
\* record before either writes it, both select from the same list of free
\* devices, so a device both ask for is returned to both; each write replaces
\* the whole record, and the record left is the list the second writer read
\* followed by the second writer's own claims, whatever the first had written.
C26_LastWriterWins ==
    \A v \in DOMAIN callers, w \in DOMAIN callers :
        BothReadThenWrote(v, w) =>
            LET name == deviceInUseCMName \o RaceNode
                read == Unmarshal(callers[w].held.data).val
                free == FilterInUse(callers[w].nodeAllDevices, read)
                mine == SelectDevices(callers[w].in.devices, callers[w].in.filter,
                                      callers[w].in.useAll, free)
            IN  /\ callers[v].held = callers[w].held
                /\ callers[v].results = SelectDevices(callers[v].in.devices,
                       callers[v].in.filter, callers[v].in.useAll, free).results
                /\ callers[w].results = mine.results
                /\ raceStore[name].data = Marshal(read \o mine.claimed)

\* the first writer was given sda and sdb, the second sda; each was told that
\* sda is its own, and the record left names sda alone
C26_Witness ==
    \E v \in DOMAIN callers, w \in DOMAIN callers :
        /\ BothReadThenWrote(v, w)
        /\ callers[v].results = <<Device(sda), Device(sdb)>>
        /\ callers[w].results = <<Device(sda)>>
        /\ raceStore[deviceInUseCMName \o RaceNode].data = Marshal(<<LocalDisk(sda)>>)

\* how often the in-use record of a node names a device
TimesInUse(store, node, name) ==
    LET kept == InUseRecordsKept(store, node)
        list == IF kept = {} THEN <<>>
                ELSE Unmarshal(store[CHOOSE c \in kept : TRUE].data).val
    IN  Cardinality({k \in 1..Len(list) : list[k].Name = name})

\* the three calls succeeded, the first was given the device, the release
\* named it and the inventory of the node still has it
RoundTripOf(name) ==
    /\ trip.pc = "done"
    /\ trip.first.err = nil /\ trip.free.err = nil /\ trip.again.err = nil
    /\ HasName(trip.first.results, name)
    /\ HasName(trip.toFree, name)
    /\ LET all == ListDevices(tripStore, trip.in.node, "none").devices
       IN  trip.in.node \in DOMAIN all /\ HasName(all[trip.in.node], name)

\* C27: after GetAvailableDevices has claimed a device and FreeDevices has
\* released it, and the device is still in the inventory of the node, the next
\* GetAvailableDevices with the same arguments returns the device again and
\* the in-use record names it exactly once.
C27_RoundTrip ==
    \A name \in DevNames :
        RoundTripOf(name) =>
            /\ HasName(trip.again.results, name)
            /\ TimesInUse(tripStore, trip.in.node, name) = 1

\* the same for explicit lists that name no device twice, filters and the
\* use-all flag
C27_RoundTripNoRepeat ==
    \A name \in DevNames :
        RoundTripOf(name) /\ NoRepeat([k \in 1..Len(trip.in.devices) |-> trip.in.devices[k].Name]) =>
            /\ HasName(trip.again.results, name)
            /\ TimesInUse(tripStore, trip.in.node, name) = 1

C27_NoRepeatWitness ==
    /\ RoundTripOf(sda)
    /\ trip.in.devices = <<Device(sda)>>
    /\ trip.again.results = <<Device(sda)>>

\* what the log holds right before its k-th entry ("": nothing)
LoggedBefore(k) == IF k > 1 THEN olog[k - 1] ELSE ""

\* C28: Operator.Run starts the provisioner loop and then the cluster watch
\* only after the schema registration succeeded, the agent fleet was started
\* and the server version was obtained, in that order; when the start of the
\* agent fleet or the query of the server version fails, Run returns an error
\* and starts neither the provisioner loop nor the cluster watch.
C28_BackgroundAfterStartup ==
    /\ \A k \in 1..Len(olog) :
          /\ olog[k] = "watch" => LoggedBefore(k) = "provisioner"
          /\ olog[k] = "provisioner" => LoggedBefore(k) = "version"
          /\ olog[k] = "version" => LoggedBefore(k) = "agent"
          /\ olog[k] = "agent" => LoggedBefore(k) = "initResources" /\ initErr = nil
    /\ OpDid("agent failed") =>
          /\ opc \in {"returned", "idle"}
          /\ oret = "Error starting agent daemonset"
          /\ ~OpDid("version") /\ ~OpDid("provisioner") /\ ~OpDid("watch")
    /\ OpDid("version failed") =>
          /\ opc \in {"returned", "idle"}
          /\ oret = "Error getting server version"
          /\ ~OpDid("provisioner") /\ ~OpDid("watch")

\* the registration succeeded at the second attempt, the agent fleet was
\* started, the version obtained, and both background activities run
C28_Witness ==
    /\ olog = <<"initResources", "initResources", "agent", "version", "provisioner", "watch">>
    /\ opc = "wait"

\* the query of the server version failed and Run has returned
C28_VersionFailedWitness ==
    /\ olog = <<"initResources", "agent", "version", "version failed">>
    /\ opc = "returned"
    /\ oret = "Error getting server version"

\* the last call was removeDevices
RemovedDevices == agentLast.op = "removeDevices"

\* the position of a call in the calls of the last removeDevices (0: not made)
CallIndex(call) ==
    IF \E k \in 1..Len(agentLast.calls) : agentLast.calls[k] = call
    THEN CHOOSE k \in 1..Len(agentLast.calls) : agentLast.calls[k] = call
    ELSE 0

InScheme(id) == \E k \in 1..Len(agentLast.scheme) : agentLast.scheme[k] = id

\* C29 as stated: an entry is gone from the durable scheme exactly when
\* removeOSD returned nil for it.
C29_DeletedIffRemoved ==
    RemovedDevices =>
        \A k \in 1..Len(agentLast.ids) :
            ~InScheme(agentLast.ids[k]) <=> agentLast.removeErrs[k].isNil

\* C29, amended: removeDevices calls config.RemoveFromScheme for an entry
\* exactly when removeOSD returned nil for it, and after that removal; the
\* entry is gone from the durable scheme exactly when both calls returned nil.
\* An entry whose removal failed, and an entry the call was not given, stays.
C29_DeletedOnlyAfterRemoval ==
    RemovedDevices =>
        /\ \A k \in 1..Len(agentLast.ids) :
              LET id == agentLast.ids[k]
              IN  /\ CallIndex(<<"removeOSD", id>>) > 0
                  /\ CallIndex(<<"RemoveFromScheme", id>>) > 0 <=> agentLast.removeErrs[k].isNil
                  /\ CallIndex(<<"RemoveFromScheme", id>>) > 0 =>
                        CallIndex(<<"RemoveFromScheme", id>>) = CallIndex(<<"removeOSD", id>>) + 1
                  /\ ~InScheme(id) <=> /\ agentLast.removeErrs[k].isNil
                                       /\ agentLast.envs[k].scheme.isNil
                  /\ ~agentLast.removeErrs[k].isNil => InScheme(id)
        /\ \A id \in OSDIDs :
              (~\E k \in 1..Len(agentLast.ids) : agentLast.ids[k] = id) => InScheme(id)

\* two entries: the removal of the first failed and it stays in the scheme,
\* the second was removed and is gone from the scheme
C29_Witness ==
    /\ RemovedDevices
    /\ Len(agentLast.ids) = 2
    /\ ~agentLast.removeErrs[1].isNil
    /\ agentLast.removeErrs[2].isNil
    /\ agentLast.scheme = <<agentLast.ids[1]>>

\* the last call was configureDevices with at least one device
ConfiguredDevices == agentLast.op = "configureDevices" /\ Len(agentLast.in.devices) > 0

\* the positions of the calls of that name in the calls of the last
\* configureDevices
CallsOf(name) == {k \in 1..Len(agentLast.calls) : agentLast.calls[k].call = name}

C30_PartitionFailedWitness ==
    /\ ConfiguredDevices
    /\ ~agentLast.err.isNil
    /\ [k \in 1..Len(agentLast.calls) |-> agentLast.calls[k].call]
          = <<"getPartitionPerfScheme", "partitionMetadata">>
    /\ Len(agentLast.scheme.Entries) > 0

\* the last configureDevices computed its scheme and partitioned what it had
\* to partition: the loop over the entries of the scheme was entered
EnteredStartLoop ==
    /\ ConfiguredDevices
    /\ agentLast.schemeErr.isNil
    /\ agentLast.scheme.Metadata.isNil \/ agentLast.metaErr.isNil

\* C31: in configureDevices a failure to start the OSD of one entry of the
\* scheme does not affect the other entries: every entry is attempted, the
\* OSDInfo of every entry that succeeded is returned, and the error is not
\* nil exactly when an entry failed.
C31_EveryEntryAttempted ==
    EnteredStartLoop =>
        LET entries == agentLast.scheme.Entries
            starts == SelectSeq(agentLast.calls, LAMBDA c : c.call = "startOSD")
            ok == {k \in 1..Len(agentLast.startErrs) : agentLast.startErrs[k].isNil}
        IN  /\ Len(starts) = Len(entries)
            /\ \A k \in 1..Len(starts) : starts[k].id = entries[k].ID
            /\ Len(agentLast.osds) = Cardinality(ok)
            /\ agentLast.err.isNil <=> Cardinality(ok) = Len(agentLast.startErrs)

\* the last call was a getPartitionPerfScheme that returned a scheme
ComputedScheme == agentLast.op = "getPartitionPerfScheme" /\ agentLast.err.isNil

\* the devices of the last call that need a new data allocation: desired for
\* data and with no partition recorded under their UUID in the loaded scheme
NeedsData ==
    {k \in DOMAIN agentLast.devices :
        /\ isDeviceDesiredForData(agentLast.devices[k].mapping)
        /\ ~isDeviceInUse(agentLast.devices[k].name, nameToUUID(agentLast.disks),
                          agentLast.loaded.scheme)}

\* the entries the last call appended to the loaded scheme
NewEntries ==
    {e \in DOMAIN agentLast.scheme.Entries : e > Len(agentLast.loaded.scheme.Entries)}

\* the layout of an entry: its data on the device alone, or its data on the
\* device and its metadata on the metadata device of the scheme
Collocated(entry, name) == entry.Partitions = <<Partition(name, "")>>

Distributed(entry, name) ==
    entry.Partitions = <<Partition(name, ""), Partition(agentLast.scheme.Metadata.Device, "")>>

\* C32: for every device that needs a new data allocation
\* getPartitionPerfScheme registers exactly one new OSD and appends exactly
\* one entry; the entry has the distributed layout whenever the scheme has a
\* metadata device, also one an earlier pass recorded, and the collocated
\* layout only when the scheme has none.
C32_OneEntryPerDataDevice ==
    ComputedScheme =>
        /\ agentLast.calls = Cardinality(NeedsData)
        /\ Len(agentLast.registered) = Cardinality(NeedsData)
        /\ Cardinality(NewEntries) = Cardinality(NeedsData)
        /\ \A k \in NeedsData :
              LET name == agentLast.devices[k].name
                  mine == {e \in NewEntries :
                              agentLast.scheme.Entries[e].Partitions[1].Device = name}
              IN  /\ Cardinality(mine) = 1
                  /\ \A e \in mine :
                        /\ \E r \in DOMAIN agentLast.registered :
                              agentLast.registered[r] = agentLast.scheme.Entries[e].ID
                        /\ IF agentLast.scheme.Metadata.isNil
                           THEN Collocated(agentLast.scheme.Entries[e], name)
                           ELSE Distributed(agentLast.scheme.Entries[e], name)

\* the same, with the layout the code chooses: distributed when this call made
\* a device of the mapping the metadata device, collocated otherwise
C32_LayoutByThisPass ==
    ComputedScheme =>
        /\ agentLast.calls = Cardinality(NeedsData)
        /\ Cardinality(NewEntries) = Cardinality(NeedsData)
        /\ \A k \in NeedsData :
              LET name == agentLast.devices[k].name
                  mine == {e \in NewEntries :
                              agentLast.scheme.Entries[e].Partitions[1].Device = name}
              IN  /\ Cardinality(mine) = 1
                  /\ \A e \in mine :
                        IF agentLast.loaded.scheme.Metadata.isNil
                              /\ ~agentLast.scheme.Metadata.isNil
                        THEN Distributed(agentLast.scheme.Entries[e], name)
                        ELSE Collocated(agentLast.scheme.Entries[e], name)

\* the calls the last startOSD made
StartCalled(call) == \E k \in DOMAIN agentLast.log : agentLast.log[k] = call

\* C33: startOSD formats a device only for an OSD with an entry of the
\* partition scheme whose ready marker is absent and whose ID is not in the
\* persisted scheme; an OSD whose ID is in the persisted scheme is not
\* formatted, whatever the force-format flag of the agent, and an OSD whose
\* ready marker exists is neither formatted nor initialized.
C33_FormatOnlyNewUnsaved ==
    Started =>
        /\ StartCalled("formatDevice") =>
              /\ ~agentLast.cfg.partitionScheme.isNil
              /\ agentLast.env.newOSD
              /\ agentLast.cfg.id \notin agentLast.env.savedIDs
        /\ agentLast.cfg.id \in agentLast.env.savedIDs => ~StartCalled("formatDevice")
        /\ ~agentLast.env.newOSD =>
              ~StartCalled("formatDevice") /\ ~StartCalled("initializeOSD")

\* the OSD of a device is new, its ID is in the persisted scheme and the agent
\* was told to force the format: initialized and started without a format
C33_Witness ==
    /\ Started
    /\ ~agentLast.cfg.partitionScheme.isNil
    /\ agentLast.env.newOSD
    /\ agentLast.env.forceFormat
    /\ agentLast.cfg.id \in agentLast.env.savedIDs
    /\ StartCalled("initializeOSD")
    /\ agentLast.err.isNil

\* the OSD of a device is new and not in the persisted scheme: formatted
C33_FormattedWitness ==
    /\ Started
    /\ ~agentLast.cfg.partitionScheme.isNil
    /\ agentLast.cfg.id \notin agentLast.env.savedIDs
    /\ StartCalled("formatDevice")
    /\ agentLast.err.isNil

\* the ready marker of the OSD of a device exists: loaded and started
C33_ReadyWitness ==
    /\ Started
    /\ ~agentLast.cfg.partitionScheme.isNil
    /\ ~agentLast.env.newOSD
    /\ StartCalled("loadOSDInfo")
    /\ agentLast.err.isNil

\* the last startOSD returned an error, without an OSDInfo, without a call of
\* runOSD and with the tracked processes as they were
FailedBeforeRun ==
    /\ ~agentLast.err.isNil
    /\ agentLast.osd.isNil
    /\ ~StartCalled("runOSD")
    /\ osdProc = agentLast.procs

\* C34: for an OSD whose ready marker exists a failure to rewrite the config
\* file does not fail startOSD, the start goes on; a whoami or fsid file that
\* cannot be read or parsed makes startOSD return an error without starting a
\* process, and so does a failed format or a failed initialization of a new
\* OSD.
C34_OnlyConfigWriteTolerated ==
    /\ \A w \in BadWhoamiFiles, id \in OSDIDs : ~loadOSDInfo(w, FsidFile).err.isNil
    /\ \A f \in BadFsidFiles, id \in OSDIDs : ~loadOSDInfo(WhoamiFile(id), f).err.isNil
    /\ Started =>
          /\ (StartCalled("writeConfigFile") /\ ~agentLast.env.writeConfig.isNil
                 /\ agentLast.env.loadInfo.isNil) =>
                /\ ~agentLast.osd.isNil
                /\ agentLast.prepareOnly => agentLast.err.isNil
                /\ ~agentLast.prepareOnly =>
                      /\ StartCalled("runOSD")
                      /\ agentLast.err.isNil <=> agentLast.env.run.isNil
          /\ (StartCalled("loadOSDInfo") /\ ~agentLast.env.loadInfo.isNil) => FailedBeforeRun
          /\ (StartCalled("formatDevice") /\ ~agentLast.env.format.isNil) => FailedBeforeRun
          /\ (StartCalled("initializeOSD") /\ ~agentLast.env.initialize.isNil) => FailedBeforeRun

\* the config file of a ready OSD could not be rewritten and the OSD was
\* started all the same
C34_Witness ==
    /\ Started
    /\ ~agentLast.env.newOSD
    /\ ~agentLast.env.writeConfig.isNil
    /\ ~agentLast.prepareOnly
    /\ agentLast.err.isNil
    /\ agentLast.cfg.id \in osdProc
    /\ agentLast.cfg.id \notin agentLast.procs

\* the fsid file of a ready OSD does not hold a UUID: an error and no process
C34_BadFsidWitness ==
    /\ Started
    /\ ~agentLast.env.newOSD
    /\ agentLast.env.loadInfo = loadOSDInfo(WhoamiFile(agentLast.cfg.id), MarkerFile(NoError, <<"1", "\n">>)).err
    /\ ~agentLast.prepareOnly
    /\ FailedBeforeRun

\* the whoami file of a ready OSD does not hold a number: an error and no process
C34_BadWhoamiWitness ==
    /\ Started
    /\ ~agentLast.env.newOSD
    /\ agentLast.env.loadInfo = loadOSDInfo(MarkerFile(NoError, <<"o", "s", "d", "\n">>), FsidFile).err
    /\ ~agentLast.prepareOnly
    /\ FailedBeforeRun

\* the format of a new OSD failed: an error and no process
C34_FormatFailedWitness ==
    /\ Started
    /\ StartCalled("formatDevice")
    /\ ~agentLast.env.format.isNil
    /\ ~agentLast.prepareOnly
    /\ FailedBeforeRun

RunCalled == runLast.op = "runOSD"

\* a ceph-osd process with the --osd-uuid argument of the last call ran already
AlreadyRunning == \E c \in runLast.running : c.uuid = runLast.uuid

\* C35: runOSD records a handle under the OSD ID only when the process manager
\* returned one; when a ceph-osd process with the same --osd-uuid argument
\* runs already no second process is started and the process map is left as
\* it was, so after any sequence of calls there is at most one tracked
\* process of an OSD ID.
C35_OneTrackedProcessPerOSD ==
    /\ RunCalled =>
          /\ procMap # runLast.map =>
                /\ runLast.process # NoProc
                /\ procMap = [i \in DOMAIN runLast.map \cup {runLast.id} |->
                                 IF i = runLast.id THEN runLast.process ELSE runLast.map[i]]
          /\ runLast.process = NoProc => procMap = runLast.map
          /\ AlreadyRunning => children = runLast.running /\ procMap = runLast.map
    /\ \A id \in DOMAIN procMap :
          /\ procMap[id] \in 1..started
          /\ Cardinality({c \in children : c.id = id /\ c.pid = procMap[id]}) <= 1
    /\ \A c, d \in children : c.uuid = d.uuid => c = d

\* runOSD was called for an OSD whose process runs and is tracked: no handle,
\* no error, the same processes and the same entry of the map
C35_Witness ==
    /\ RunCalled
    /\ AlreadyRunning
    /\ runLast.err.isNil
    /\ runLast.process = NoProc
    /\ runLast.id \in DOMAIN procMap
    /\ \E c \in children : c.uuid = runLast.uuid /\ c.pid = procMap[runLast.id]

\* runOSD started a process and recorded its handle
C35_StartedWitness ==
    /\ RunCalled
    /\ runLast.process # NoProc
    /\ procMap[runLast.id] = runLast.process
    /\ runLast.id \in DOMAIN runLast.map

\* C36: ListDevicesInUse succeeds for a node whenever an in-use record of the
\* node exists already, also one that holds no devices data yet, and it never
\* tries to create a second record for a node that has one (the API server
\* serving every call).
C36_ExistingRecordSucceeds ==
    (/\ last.op = "ListDevicesInUse"
     /\ last.node # ""
     /\ apiFault = "none"
     /\ HasInUseRecord(last.before, last.node))
    => /\ last.err = nil
       /\ \A k \in DOMAIN last.calls : last.calls[k] # "create"
       /\ configMaps = last.before

\* the same for a record that holds devices data, which is the record
\* ListDevicesInUse looks for
C36_RecordWithDataSucceeds ==
    (/\ last.op = "ListDevicesInUse"
     /\ last.node # ""
     /\ apiFault = "none"
     /\ InUseRecordsKept(last.before, last.node) # {})
    => /\ last.err = nil
       /\ \A k \in DOMAIN last.calls : last.calls[k] # "create"
       /\ configMaps = last.before

C36_RecordWithDataWitness ==
    /\ last.op = "ListDevicesInUse"
    /\ apiFault = "none"
    /\ InUseRecordsKept(last.before, last.node) # {}
    /\ last.cm # NoCM

\* the last removeOSD failed in the wait for the rebalance: the weight was set
\* and the OSD marked out, and waitForRebalance returned an error
FailedInRebalanceWait ==
    /\ Removed
    /\ agentLast.env.reweight.isNil
    /\ agentLast.env.markOut.isNil
    /\ ~agentLast.env.rebalance.isNil

RemoveCalled(call) == \E k \in DOMAIN agentLast.log : agentLast.log[k] = call

\* C37: when removeOSD fails in the rebalance wait the process of the OSD is
\* neither stopped nor dropped from the tracked ones, the OSD is not purged and
\* its filesystem and root directory are not deleted, while the weight 0.0 and
\* the out mark stay: the call ends with the wait and nothing is rolled back.
C37_NoRollbackAfterFailedWait ==
    FailedInRebalanceWait =>
        /\ ~agentLast.err.isNil
        /\ agentLast.err.text[1] = "failed to wait for cluster rebalancing after removing osd."
        /\ agentLast.log = <<"GetOSDUsage", "CrushReweight", "markOSDOut", "waitForRebalance">>
        /\ ~RemoveCalled("Stop") /\ ~RemoveCalled("purgeOSD")
        /\ ~RemoveCalled("deleteOSDFileSystem") /\ ~RemoveCalled("RemoveAll")
        /\ osdProc = agentLast.procs

\* such a removal of an OSD whose process is tracked, with a usage baseline
C37_Witness ==
    /\ FailedInRebalanceWait
    /\ agentLast.env.usage.isNil
    /\ agentLast.id \in agentLast.procs
    /\ agentLast.id \in osdProc
    /\ ~agentLast.err.isNil

GotOSDInfo == agentLast.op = "getOSDInfo"

C38_BuiltConfigsExactlyOne ==
    (GotOSDInfo /\ (agentLast.cfg.dir \/ ~agentLast.cfg.partitionScheme.isNil)) =>
        /\ agentLast.bluestore # agentLast.filestore
        /\ agentLast.osd.IsFileStore = ~agentLast.bluestore

\* never both, whatever the config
C38_NeverBoth == GotOSDInfo => ~(agentLast.bluestore /\ agentLast.filestore)

C38_BuiltWitness ==
    /\ GotOSDInfo
    /\ ~agentLast.cfg.dir
    /\ ~agentLast.cfg.partitionScheme.isNil
    /\ agentLast.cfg.partitionScheme.StoreType = Filestore
    /\ agentLast.filestore

\* the latest poll of waitForRebalance failed
LastPollFailed ==
    \/ wpc = "phase1" /\ tries1 > 0
    \/ wpc = "phase2" /\ tries2 > 0
    \/ wpc = "returned" /\ wret # nil

\* C39: waitForRebalance ends in every execution: it makes at most 20 polls
\* of phase 1 and at most 3000 polls of phase 2 and returns an error when a
\* phase has used up its attempts, so removeOSD does not wait forever for a
\* cluster that never gets clean.
C39_WaitTerminates ==
    /\ [](/\ tries1 <= Phase1Retries
          /\ tries2 <= Phase2Retries
          /\ wpc = "phase1" => tries1 < Phase1Retries
          /\ wpc = "phase2" => tries2 < Phase2Retries
          /\ (wpc = "returned" /\ wret # nil) =>
                \/ tries1 = Phase1Retries /\ tries2 = 0
                \/ tries2 = Phase2Retries)
    /\ (wpc \in {"phase1", "phase2"}) ~> (wpc = "returned")

\* phase 2 used up its 3000 attempts and the wait returned the error
C39_Witness ==
    /\ wpc = "returned"
    /\ wret = "max retries exceeded"
    /\ tries2 = Phase2Retries
    /\ PGPoll(wpoll, osdID) # nil

\* phase 1 used up its 20 attempts
C39_Phase1Witness ==
    /\ wpc = "returned"
    /\ wret = "max retries exceeded"
    /\ tries1 = Phase1Retries
    /\ tries2 = 0

PartCalled == partLast.op = "GetDevicePartitions" /\ partLast.err.isNil

\* the size lsblk printed for the device, 0 when it printed none, and the
\* sizes it printed for the partitions of the device
RECURSIVE ListedDeviceSize(_, _, _)
ListedDeviceSize(lines, device, size) ==
    IF lines = <<>> THEN size
    ELSE ListedDeviceSize(Tail(lines), device,
                           IF Head(lines).NAME = device
                           THEN DigitsValue(Head(lines).SIZE, 0) ELSE size)

RECURSIVE ListedPartitionSizes(_, _)
ListedPartitionSizes(lines, device) ==
    IF lines = <<>> THEN 0
    ELSE ListedPartitionSizes(Tail(lines), device)
         + (IF /\ Head(lines).NAME # device
               /\ Head(lines).PKNAME = device
               /\ Head(lines).TYPE = "part"
            THEN DigitsValue(Head(lines).SIZE, 0) ELSE 0)

\* C40: GetDevicePartitions returns as unused space the size of the device
\* less the sum of the sizes of its partitions (an unsigned subtraction), 0
\* when the size of the device is not determined, and the unused space never
\* exceeds the size of the device, also when the sizes of the partitions sum
\* to more than it.
C40_UnusedWithinDevice ==
    PartCalled =>
        LET size == ListedDeviceSize(partLast.output.lines, partLast.device, 0)
            sum == ListedPartitionSizes(partLast.output.lines, partLast.device)
        IN  /\ size = 0 => partLast.unusedSpace = 0
            /\ size > 0 => (partLast.unusedSpace + sum) % UintMod = size
            /\ partLast.unusedSpace <= size

\* the same for partitions that fit in the device
C40_UnusedWhenPartitionsFit ==
    PartCalled =>
        LET size == ListedDeviceSize(partLast.output.lines, partLast.device, 0)
            sum == ListedPartitionSizes(partLast.output.lines, partLast.device)
        IN  /\ size = 0 => partLast.unusedSpace = 0
            /\ (size > 0 /\ sum <= size) =>
                  /\ partLast.unusedSpace = size - sum
                  /\ partLast.unusedSpace <= size

\* a device of size 40 with partitions of 10 and 20: 10 are unused
C40_FitWitness ==
    /\ PartCalled
    /\ Len(partLast.partitions) = 2
    /\ ListedDeviceSize(partLast.output.lines, partLast.device, 0) = 40
    /\ ListedPartitionSizes(partLast.output.lines, partLast.device) = 30
    /\ partLast.unusedSpace = 10

====
